---- MODULE Spec2Model ----
(***************************************************************************)
(* Model of the stateful OPNsense upgrade orchestrator                     *)
(* (src/python/opnsense-upgrade.py): the state file, the boot hook, one    *)
(* orchestrator process at a time, process death and reboots.              *)
(***************************************************************************)
EXTENDS Integers, Sequences, FiniteSets, TLC

(***************************************************************************)
(* Stage identifiers (class Stage).                                        *)
(***************************************************************************)
INIT == 0
PRECHECKS == 1
CLEANUP == 2
BACKUP == 3
BASE_KERNEL == 4
FIX_PKG == 6
PACKAGES == 7
POST_VERIFY == 8
COMPLETE == 10

ORDER == <<PRECHECKS, CLEANUP, BACKUP, BASE_KERNEL, FIX_PKG, PACKAGES, POST_VERIFY, COMPLETE>>

\* Free space, in MB, stage_prechecks asks for.
MinDiskMB == 2000

(***************************************************************************)
(* Version strings.  "YY.M", "YY.M.P", "YY.M_R" and "YY.M.P_R" are records *)
(* [y, m, p, r]; an absent patch is NoPart, an absent revision NoRev, and  *)
(* the empty string (and None) is NoVer.                                   *)
(***************************************************************************)
NoPart == -1
NoRev == -1
NoVer == [y |-> 0, m |-> 0, p |-> NoPart, r |-> NoRev]

V(y, m, p) == [y |-> y, m |-> m, p |-> p, r |-> NoRev]

Truthy(v) == v # NoVer

\* A mutation of major: the patch component is kept.
major_keeps_patch(version) == version

\* SystemInfo.major: split on ".", keep the first two parts.  The revision
\* suffix belongs to the last part, so it survives when there is no patch.
major(version) ==
    IF version.p # NoPart
    THEN [y |-> version.y, m |-> version.m, p |-> NoPart, r |-> NoRev]
    ELSE version

\* SystemInfo.opnsense_version: the installed version, "_<rev>" stripped.
opnsense_version(raw) == [raw EXCEPT !.r = NoRev]

(***************************************************************************)
(* Bounds of the model.                                                    *)
(***************************************************************************)
\* Patch levels 1..MaxPatch of the installed branch exist.
MaxPatch == 2

CurBranch == V(25, 7, NoPart)
NextBranch == V(26, 1, NoPart)
InstalledVer == V(25, 7, 1)
MinorVers == {V(25, 7, k) : k \in 1..MaxPatch}
MajorVers == {NextBranch, V(26, 1, 1)}

\* What "-t VERSION" may name: the installed version, the newest patch of its
\* branch, the next branch; NoVer stands for no -t, or -t without a version.
TargetArgs == {NoVer, InstalledVer, V(25, 7, MaxPatch), NextBranch}

(***************************************************************************)
(* The state file (StateManager).                                          *)
(***************************************************************************)
NoFile == [kind |-> "absent", stage |-> INIT, version |-> NoVer,
           minor_only |-> FALSE, force_mode |-> FALSE]
TornFile == [NoFile EXCEPT !.kind = "torn"]
\* Valid JSON that is not a checkpoint: a non-empty object without "stage".
MalformedFile == [NoFile EXCEPT !.kind = "malformed"]

\* A mutation of SavedRecord: the stage written is the entry sentinel.
SavedRecord_of_init(stage, version, minor_only, force_mode) ==
    [kind |-> "valid", stage |-> INIT, version |-> version,
     minor_only |-> minor_only, force_mode |-> force_mode]

\* StateManager.save in execute mode: the JSON object it dumps.
SavedRecord(stage, version, minor_only, force_mode) ==
    [kind |-> "valid", stage |-> stage, version |-> version,
     minor_only |-> minor_only, force_mode |-> force_mode]

\* StateManager.exists
StateExists(file) == file.kind # "absent"

\* StateManager.load: the dict, or nothing (and the file removed) when the
\* content is empty or not JSON.
LoadOk(file) == file.kind = "valid"
FileAfterLoad(file) == IF file.kind = "torn" THEN NoFile ELSE file
\* json.loads succeeded on something else: load() returns it as it is, and
\* the caller's saved["stage"] raises KeyError.
LoadUnusable(file) == file.kind = "malformed"

(***************************************************************************)
(* Shell: commands honour the dry-run flag.                                *)
(***************************************************************************)
\* A mutation of ShRan: the dry-run flag is ignored.
ShRan_ignores_dry(dry) == TRUE

\* Shell.run / run_tee / run_tee_output: whether the command is really run.
ShRan(dry) == ~dry

\* Their result: TRUE in dry-run, else the command's exit status.
ShResult(dry, ok) == dry \/ ok

\* What a stage that goes on after a failed command leaves on its trail.
Failed(dry, ok) == IF ~ShResult(dry, ok) THEN <<"command failed">> ELSE <<>>

\* The commands a call adds to the log of commands really run.
Ran(dry, names) == IF ShRan(dry) THEN names ELSE {}

\* OPNsenseUpgrade.confirm
confirm(frc, dry, answer) == frc \/ dry \/ answer

(***************************************************************************)
(* query_latest: the five detection methods merged (lines 277-329).  The   *)
(* record e holds what each method's probe answers: fwMajor, fwMinor       *)
(* (_parse_firmware), probe (_probe_mirrors), upd (the version token of    *)
(* "opnsense-update -c" when it says "can be upgraded"), patched           *)
(* (_probe_mirror_minor), cl (the greatest changelog branch).              *)
(***************************************************************************)
\* SystemInfo._check_changelog, from the greatest branch token found.
\* A mutation of ChangelogMajor: the changelog's branch replaces a candidate.
ChangelogMajor_overwrites(current, found_major, latest) ==
    IF latest # major(current) THEN latest ELSE found_major

ChangelogMajor(current, found_major, latest) ==
    IF latest # major(current) /\ ~Truthy(found_major) THEN latest ELSE found_major

ChangelogMinor(current, found_minor, latest) ==
    IF latest = major(current) /\ (~Truthy(found_minor) \/ found_minor = current)
    THEN latest ELSE found_minor

FoundMajor(current, minor_only, e) ==
    LET m1 == IF minor_only THEN NoVer ELSE e.fwMajor
        m2 == IF ~minor_only /\ ~Truthy(m1) /\ Truthy(current) THEN e.probe ELSE m1
    IN  IF ~minor_only /\ Truthy(e.cl) /\ Truthy(current)
        THEN ChangelogMajor(current, m2, e.cl) ELSE m2

FoundMinor(current, minor_only, e) ==
    LET m1 == e.fwMinor
        m3 == IF Truthy(e.upd) /\ (~Truthy(m1) \/ m1 = current) THEN e.upd ELSE m1
        m4 == IF (~Truthy(m3) \/ m3 = current) /\ Truthy(current)
                 /\ Truthy(e.patched) /\ e.patched # current
              THEN e.patched ELSE m3
    IN  IF ~minor_only /\ Truthy(e.cl) /\ Truthy(current)
        THEN ChangelogMinor(current, m4, e.cl) ELSE m4

query_latest(current, minor_only, e) ==
    LET fmaj == FoundMajor(current, minor_only, e)
        fmin == FoundMinor(current, minor_only, e)
    IN  IF Truthy(fmaj) THEN fmaj
        ELSE IF Truthy(fmin) /\ fmin # current THEN fmin
        ELSE current

\* The answers the probes may give.
QueryEnvs ==
    [fwMajor : {NoVer, NextBranch},
     fwMinor : {NoVer, V(25, 7, MaxPatch)},
     probe   : {NoVer, NextBranch},
     upd     : {NoVer, V(25, 7, MaxPatch), NextBranch},
     patched : {NoVer, V(25, 7, MaxPatch)},
     cl      : {NoVer, CurBranch, NextBranch}]

\* What query_latest may return on this system.
QueryResults(current, minor_only) ==
    {query_latest(current, minor_only, e) : e \in QueryEnvs}

\* OPNsenseUpgrade._check_pending_minor, from the firmware status' minor
\* candidate and the advisory's version token.
check_pending_minor(current, fwMinor, upd) ==
    IF Truthy(fwMinor) /\ fwMinor # current THEN fwMinor
    ELSE IF Truthy(upd) /\ upd # current /\ major(upd) = major(current) THEN upd
    ELSE NoVer

\* SystemInfo.validate_mirror: the branch's meta.conf answers 200.
validate_mirror(version, mirrorBranches) == major(version) \in mirrorBranches


\* SystemInfo.detect_state: the stage the live signals point to.
detect_state_updates_first(current, target_version, abiMismatch, updAvail) ==
    IF abiMismatch THEN FIX_PKG
    ELSE IF updAvail THEN BASE_KERNEL
    ELSE IF Truthy(target_version) /\ major(current) = major(target_version) THEN COMPLETE
    ELSE IF Truthy(target_version) /\ Truthy(current)
            /\ major(current) # major(target_version) THEN FIX_PKG
    ELSE INIT

detect_state(current, target_version, abiMismatch, updAvail) ==
    IF abiMismatch THEN FIX_PKG
    ELSE IF Truthy(target_version) /\ major(current) = major(target_version) THEN COMPLETE
    ELSE IF updAvail THEN BASE_KERNEL
    ELSE IF Truthy(target_version) /\ Truthy(current)
            /\ major(current) # major(target_version) THEN FIX_PKG
    ELSE INIT

\* No call of detect_state is on record.
NoDetect ==
    [called |-> FALSE, cur |-> NoVer, abi |-> FALSE, upd |-> FALSE, tgt |-> NoVer,
     out |-> INIT]

(***************************************************************************)
(* One SystemInfo object answering query_latest calls, method by method    *)
(* (lines 277-329), on a system and mirrors that do not change.            *)
(***************************************************************************)
\* "26.1_4": a release of the next branch with a package revision.
NextRev == [y |-> 26, m |-> 1, p |-> NoPart, r |-> 4]

\* The branch before the installed one, and the branches a mirror may carry.
PrevBranch == V(25, 1, NoPart)
MirrorBranches == {CurBranch, NextBranch, V(26, 7, NoPart)}

\* What the probes find: the candidates of the firmware status, the branches
\* that have a repository on the mirror (repos) and the package revision its
\* packagesite gives for a branch (rev; NoRev: _exact_version finds nothing),
\* the update check's version token, the newest patch of the installed
\* branch, the greatest branch token of the changelog directory.
ProbeEnvs ==
    [fwMajor : {NoVer, NextBranch},
     fwMinor : {NoVer, V(25, 7, MaxPatch)},
     repos   : SUBSET MirrorBranches,
     rev     : {NoRev, NextRev.r},
     upd     : {NoVer, V(25, 7, MaxPatch), NextBranch},
     patched : {NoVer, V(25, 7, MaxPatch)},
     cl      : {NoVer, PrevBranch, CurBranch, NextBranch}]

\* The installed versions the calls are made on; NoVer: it cannot be read.
QueryCurrents == {NoVer, V(25, 1, 1), InstalledVer, V(25, 7, MaxPatch)}

\* The mirror the system is set up for: the URL of OPNsense.conf when the
\* file names one, else the default built from the OS version.
SystemMirror(conf) == IF conf THEN "conf" ELSE "default"

\* A mutation of mirror_url: a cached URL is replaced by the default one.
mirror_url_drops_cache(cache, conf) ==
    IF cache # "" THEN "default" ELSE SystemMirror(conf)

\* SystemInfo.mirror_url (lines 231-250): the cached URL, else the system's.
mirror_url(cache, conf) ==
    IF cache # "" THEN cache ELSE SystemMirror(conf)

\* What a probe of the mirror at `url` answers: the system's mirror gives
\* `answer`, any other URL nothing.
ProbeAt(url, conf, answer) == IF url = SystemMirror(conf) THEN answer ELSE NoVer

\* The repositories a probe at `url` can see.
ReposAt(url, conf, repos) == IF url = SystemMirror(conf) THEN repos ELSE {}

\* A mutation of ProbeCandidates: the month of the installed branch is not
\* looked at.
ProbeCandidates_month_blind(current) ==
    <<V(current.y, 7, NoPart), V(current.y + 1, 1, NoPart)>>

\* SystemInfo._probe_mirrors, lines 397-401: the branches to ask for.
ProbeCandidates(current) ==
    IF current.m >= 7
    THEN <<V(current.y + 1, 1, NoPart), V(current.y + 1, 7, NoPart)>>
    ELSE <<V(current.y, 7, NoPart), V(current.y + 1, 1, NoPart)>>

\* Lines 403-411: the candidates are asked for in order up to the first one
\* that has a repository.
ProbedCount(cands, repos) ==
    IF \E i \in 1..Len(cands) : cands[i] \in repos
    THEN CHOOSE i \in 1..Len(cands) :
            cands[i] \in repos /\ \A j \in 1..(i - 1) : cands[j] \notin repos
    ELSE Len(cands)

\* Lines 407-410, "exact or ver": the packagesite's version when there is one.
ExactOr(ver, rev) == IF rev = NoRev THEN ver ELSE [ver EXCEPT !.r = rev]

\* SystemInfo._probe_mirrors (lines 394-411).
probe_mirrors(current, repos, rev) ==
    LET cands == ProbeCandidates(current)
        n == ProbedCount(cands, repos)
    IN  IF cands[n] \in repos THEN ExactOr(cands[n], rev) ELSE NoVer

\* How many calls one object gets.
MaxCalls == 2

\* No such object is followed.
QIdle == [pc |-> "off"]

\* A new object on the system (cur, conf) whose probes answer e; the calls
\* will ask with minor_only = mo (SystemInfo.__init__, lines 205-208).
QNew(cur, mo, conf, e) ==
    [pc |-> "idle", cur |-> cur, mo |-> mo, conf |-> conf, e |-> e,
     cache |-> "", fmaj |-> NoVer, fmin |-> NoVer, probed |-> <<>>, out |-> NoVer,
     prev |-> NoVer, calls |-> 0]

(***************************************************************************)
(* The MCP server (src/mcp): a tool call reads the firewall's firmware     *)
(* state over the REST API and may post an update, an upgrade or a reboot. *)
(***************************************************************************)
\* Values of OPNSENSE_READ_ONLY; "unset": the variable is not set.
ReadOnlySettings == {"unset", "false", "1", "true", "TRUE", "yes"}

\* str.lower() on these values.
Lower(s) == IF s = "TRUE" THEN "true" ELSE s

\* Config.from_env, lines 45-46: the read_only field.
ReadOnlyFromEnv(setting) ==
    Lower(IF setting = "unset" THEN "false" ELSE setting) \in {"1", "true", "yes"}

\* A mutation of check_writable: read-only mode is not looked at.
check_writable_always(read_only) == TRUE

\* call_tool.check_writable (lines 95-97): TRUE when it returns, FALSE when
\* it raises ValueError.
check_writable(read_only) == ~read_only

\* What the firmware API may report: upgradestatus "running", and of the
\* status its "status", product_version, product_latest and CORE_NEXT.
FirewallStates ==
    [running : BOOLEAN,
     status  : {"none", "update", "upgrade"},
     current : {NoVer, InstalledVer, [InstalledVer EXCEPT !.r = 2]},
     latest  : {NoVer, InstalledVer, V(25, 7, MaxPatch)},
     next    : {NoVer, NextBranch}]

\* Lines 242 and 286: current.split("_")[0]
current_base(current) == [current EXCEPT !.r = NoRev]

\* Lines 255-257: a minor update is pending.
has_minor(fw_status, latest_minor, base) ==
    fw_status = "update" \/ (Truthy(latest_minor) /\ Truthy(base) /\ latest_minor # base)

\* run_upgrade, lines 245-263: the message it returns, or "go".
UpgradeVerdict(fw) ==
    IF fw.status # "upgrade"
    THEN (IF Truthy(fw.next) THEN "not released" ELSE "no major upgrade")
    ELSE IF has_minor(fw.status, fw.latest, current_base(fw.current))
    THEN "minor pending"
    ELSE "go"

\* The tools (lines 12-80), and a name that is none of them.
ReadTools ==
    {"get_version", "check_updates", "upgrade_status", "get_changelog", "list_packages",
     "system_info", "pre_upgrade_check"}
WriteTools == {"run_update", "run_upgrade", "reboot"}
ToolNames == ReadTools \cup WriteTools \cup {"no_such_tool"}

\* The API requests of the tools that only read (lines 100-213, 275-361), on
\* the path where every request answers and no reboot is pending.
ReadRequests(name) ==
    CASE name = "get_version" -> <<"GET status", "POST info">>
      [] name = "check_updates" -> <<"GET status", "GET status">>
      [] name = "upgrade_status" -> <<"GET upgradestatus">>
      [] name = "get_changelog" -> <<"POST changelog">>
      [] name = "list_packages" -> <<"POST info">>
      [] name = "system_info" -> <<"POST activity">>
      [] name = "pre_upgrade_check" ->
            <<"GET status", "GET status", "GET upgradestatus", "POST info">>

\* No server is followed.
McpOff == [pc |-> "off"]

\* register_tools (lines 83-84) on a configuration read from `setting`.
McpNew(setting, fw) ==
    [pc |-> "idle", setting |-> setting, read_only |-> ReadOnlyFromEnv(setting),
     fw |-> fw, tool |-> "none", sent |-> <<>>, outcome |-> "none"]

(***************************************************************************)
(* State.                                                                  *)
(***************************************************************************)
VARIABLES
    stateFile,      \* /var/db/opnsense-upgrade.state
    hook,           \* the boot hook /etc/rc.local.d/99-opnsense-upgrade-resume exists
    sysVer,         \* what opnsense-version reports
    booting,        \* the machine restarted and rc.local.d has not run yet
    pc,             \* where the orchestrator process is ("none": no process)
    dry_run, force, minor, wants_major, target,     \* OPNsenseUpgrade fields
    current_stage,  \* self.current_stage
    idx,            \* position of run_upgrade's loop in ORDER
    saveStage,      \* the argument of the save() under way
    needReboot,     \* the stage under way ends in a reboot
    exitCode, exitReason,
    executed,       \* stage handlers this process has entered, in order
    cmds,           \* mutating commands really run by the stage under way
    stageTrail,     \* what the stage under way did that cmds does not tell, in order
    origin,         \* how this process entered run_upgrade: fresh, file, detect
    startStage,     \* current_stage when it entered run_upgrade
    startVer,       \* the installed version when the process started
    mode,           \* what the flags asked for: query, clean, backup, resume, resolve
    inFlight,       \* load() would have returned a checkpoint when it started
    byHook,         \* the process was started by the boot hook
    second,         \* another invocation entered run_upgrade while this one is in its stages
    detectEnv,      \* what detect_state was given and what it returned
    pendingEnv,     \* the pending minor update the system showed at the gate
    persisted,      \* the stage of the last whole checkpoint of the state file
    needsBoot,      \* base and kernel were replaced and the machine has not restarted since
    runActive,      \* a run has written a checkpoint and has not ended
    runTarget,      \* the target of that run at its first checkpoint
    runNext,        \* the stage that run has to execute next
    q,              \* a SystemInfo object answering query_latest calls
    mcp             \* the MCP server, the firewall it talks to, the call under way

diskVars == <<stateFile, hook, sysVer, booting>>
argVars == <<dry_run, force, minor, wants_major, target>>
loopVars == <<current_stage, idx, saveStage, needReboot>>
exitVars == <<exitCode, exitReason>>
procGhost == <<executed, cmds, stageTrail, origin, startStage, startVer, mode, inFlight, byHook, second,
              pendingEnv, detectEnv>>
runGhost == <<runActive, runTarget, runNext>>
diskGhost == <<persisted, needsBoot>>
vars == <<stateFile, hook, sysVer, booting, pc, dry_run, force, minor, wants_major,
          target, current_stage, idx, saveStage, needReboot, exitCode, exitReason,
          executed, cmds, stageTrail, origin, startStage, startVer, mode, inFlight, byHook,
          second, pendingEnv, detectEnv,
          persisted, needsBoot, runActive, runTarget, runNext, q, mcp>>

InitMain ==
    /\ stateFile = NoFile
    /\ hook = FALSE
    /\ sysVer = InstalledVer
    /\ booting = FALSE
    /\ pc = "none"
    /\ dry_run = TRUE /\ force = FALSE /\ minor = FALSE /\ wants_major = FALSE
    /\ target = NoVer
    /\ current_stage = INIT
    /\ idx = 1
    /\ saveStage = INIT
    /\ needReboot = FALSE
    /\ exitCode = -1 /\ exitReason = "none"
    /\ executed = <<>>
    /\ cmds = {}
    /\ stageTrail = <<>>
    /\ origin = "none"
    /\ startStage = INIT
    /\ startVer = InstalledVer
    /\ mode = "none"
    /\ inFlight = FALSE
    /\ byHook = FALSE
    /\ second = FALSE
    /\ detectEnv = NoDetect
    /\ pendingEnv = NoVer
    /\ persisted = INIT
    /\ needsBoot = FALSE
    /\ runActive = FALSE
    /\ runTarget = NoVer
    /\ runNext = INIT

Init == InitMain /\ q = QIdle /\ mcp = McpOff

Running == pc \notin {"none", "exited"}

\* sys.exit(code), or run() returning (code 0).
Exit(code, reason) ==
    /\ pc' = "exited"
    /\ exitCode' = code
    /\ exitReason' = reason

(***************************************************************************)
(* main / OPNsenseUpgrade.__init__ / the head of run(): the mode the flags *)
(* select (lines 570-580, 983-1000).                                       *)
(***************************************************************************)
Dispatch(latest, clean, backup, mnr, tgt, rsm) ==
    IF latest THEN "query"
    ELSE IF clean THEN "clean"
    ELSE IF backup /\ ~mnr /\ ~Truthy(tgt) /\ ~rsm THEN "backup"
    ELSE IF rsm THEN "resume"
    ELSE "resolve"

TargetOpts ==
    {[kind |-> "none", ver |-> NoVer], [kind |-> "auto", ver |-> NoVer]}
    \cup {[kind |-> "ver", ver |-> v] : v \in TargetArgs \ {NoVer}}

StartProcess(md, execute, frc, mnr, topt, hooked) ==
    /\ pc' = md
    /\ dry_run' = ~execute
    /\ force' = frc
    /\ minor' = mnr
    /\ wants_major' = (topt.kind = "auto")
    /\ target' = topt.ver
    /\ current_stage' = INIT
    /\ idx' = 1
    /\ saveStage' = INIT
    /\ needReboot' = FALSE
    /\ exitCode' = -1
    /\ exitReason' = "running"
    /\ executed' = <<>>
    /\ cmds' = {}
    /\ stageTrail' = <<>>
    /\ origin' = "none"
    /\ startStage' = INIT
    /\ startVer' = opnsense_version(sysVer)
    /\ mode' = md
    /\ inFlight' = LoadOk(stateFile)
    /\ byHook' = hooked
    /\ second' = FALSE
    /\ detectEnv' = NoDetect
    /\ pendingEnv' = NoVer

\* The run in flight is over: nothing is left to resume.
RunEnds ==
    /\ runActive' = FALSE
    /\ runTarget' = NoVer
    /\ runNext' = INIT

\* A resume found no state file to load: the run in flight, if there was
\* one, is no longer followed once this process moves on.
Lost ==
    /\ runActive
    /\ \/ origin = "detect"
       \/ exitReason \in {"nothing_to_resume", "already_upgraded"}

\* main: without any argument the help is printed (lines 1189-1192);
\* otherwise run() dispatches on the flags.
ModeOf(a) ==
    IF ~(a.latest \/ a.clean \/ a.backup \/ a.rsm \/ a.execute \/ a.frc \/ a.mnr
         \/ a.topt.kind # "none")
    THEN "help"
    ELSE Dispatch(a.latest, a.clean, a.backup, a.mnr, a.topt.ver, a.rsm)

\* The command lines tried.  Flags a mode never reads are left off, and so is
\* -f in a dry run (confirm answers yes there anyway) unless it is the only
\* flag, which is the dry run that auto-detects its target.
CommandLines ==
    {a \in [latest : BOOLEAN, clean : BOOLEAN, backup : BOOLEAN, rsm : BOOLEAN,
            execute : BOOLEAN, frc : BOOLEAN, mnr : BOOLEAN, topt : TargetOpts] :
        LET md == ModeOf(a) IN
        /\ a.latest => ~a.clean
        /\ (a.latest \/ a.clean) => (~a.backup /\ ~a.rsm)
        /\ md \in {"query", "clean", "backup"}
              => (~a.frc /\ ~a.mnr /\ a.topt.kind = "none")
        /\ md \in {"resume", "resolve"} => ~a.backup
        /\ md = "resume" => a.topt.kind # "auto"
        /\ a.frc => /\ md = "resolve"
                    /\ (a.execute \/ (~a.mnr /\ a.topt.kind = "none"))}

\* The process is gone: its fields mean nothing any more.
ResetProc ==
    /\ pc' = "none"
    /\ dry_run' = TRUE /\ force' = FALSE /\ minor' = FALSE /\ wants_major' = FALSE
    /\ target' = NoVer
    /\ current_stage' = INIT
    /\ idx' = 1
    /\ saveStage' = INIT
    /\ needReboot' = FALSE
    /\ exitCode' = -1 /\ exitReason' = "none"
    /\ executed' = <<>>
    /\ cmds' = {}
    /\ stageTrail' = <<>>
    /\ origin' = "none"
    /\ startStage' = INIT
    /\ startVer' = InstalledVer
    /\ mode' = "none"
    /\ inFlight' = FALSE
    /\ byHook' = FALSE
    /\ second' = FALSE
    /\ detectEnv' = NoDetect
    /\ pendingEnv' = NoVer

\* An operator starts the script with some flags.
Invoke ==
    /\ pc = "none" /\ ~booting
    /\ \E a \in CommandLines :
          StartProcess(ModeOf(a), a.execute, a.frc, a.mnr, a.topt, FALSE)
    /\ UNCHANGED <<diskVars, runGhost>>
    /\ UNCHANGED persisted
    /\ UNCHANGED needsBoot
    /\ UNCHANGED <<q, mcp>>

\* The exited process is reaped.
Reap ==
    /\ pc = "exited"
    /\ ResetProc
    /\ IF Lost THEN RunEnds ELSE UNCHANGED runGhost
    /\ UNCHANGED diskVars
    /\ UNCHANGED persisted
    /\ UNCHANGED needsBoot
    /\ UNCHANGED <<q, mcp>>

\* No argument: parser.print_help(), sys.exit(0).
ShowHelp ==
    /\ pc = "help"
    /\ Exit(0, "help")
    /\ UNCHANGED <<diskVars, argVars, loopVars, procGhost, runGhost, diskGhost, q, mcp>>

\* -l: query_latest, nothing else (lines 983-985).
RunQuery ==
    /\ pc = "query"
    /\ \E latest \in QueryResults(opnsense_version(sysVer), FALSE) :
          Exit(0, IF latest = opnsense_version(sysVer)
                  THEN "query_up_to_date" ELSE "query_found")
    /\ UNCHANGED <<diskVars, argVars, loopVars, procGhost, runGhost>>
    /\ UNCHANGED persisted
    /\ UNCHANGED needsBoot
    /\ UNCHANGED <<q, mcp>>

\* -c: state.clear() and _remove_auto_resume() (lines 988-992).
RunClean ==
    /\ pc = "clean"
    /\ stateFile' = NoFile
    /\ hook' = FALSE
    /\ Exit(0, "clean")
    /\ RunEnds
    /\ UNCHANGED <<sysVer, booting, argVars, loopVars, procGhost>>
    /\ persisted' = INIT
    /\ needsBoot' = FALSE
    /\ UNCHANGED <<q, mcp>>

\* -b alone: _run_backup (lines 1129-1156); run() returns either way.
RunBackup ==
    /\ pc = "backup"
    /\ \E configExists \in BOOLEAN :
          Exit(0, IF configExists THEN "backup_done" ELSE "backup_no_config")
    /\ UNCHANGED <<diskVars, argVars, loopVars, procGhost, runGhost>>
    /\ UNCHANGED persisted
    /\ UNCHANGED needsBoot
    /\ UNCHANGED <<q, mcp>>


(***************************************************************************)
(* A fresh run: target resolution and path selection (lines 1040-1078).    *)
(***************************************************************************)
\* Whether the auto-detected target t ends run() at once, and how
\* (lines 1046-1066); "go" when it does not.
AutoVerdict(t, current, mnr, wm) ==
    IF ~Truthy(t) THEN "no_target"
    ELSE IF t = current THEN "up_to_date"
    ELSE IF wm /\ Truthy(current) /\ major(t) = major(current) THEN "only_minor"
    ELSE IF mnr /\ Truthy(current) /\ major(t) # major(current) THEN "minor_is_major"
    ELSE "go"

\* A mutation of SelectMinor: minor mode is never switched on.
SelectMinor_never(mnr, t, current) == mnr

\* self.minor after path selection (lines 1069-1078).
SelectMinor(mnr, t, current) ==
    mnr \/ (Truthy(t) /\ Truthy(current) /\ major(t) = major(current))

VerdictCode(v) == IF v \in {"no_target", "minor_is_major"} THEN 1 ELSE 0

Resolve ==
    /\ pc = "resolve"
    /\ LET current == opnsense_version(sysVer) IN
       IF ~Truthy(target)
       THEN \E t \in QueryResults(current, minor) :
               LET v == AutoVerdict(t, current, minor, wants_major)
               IN  /\ target' = t
                   /\ IF v = "go"
                      THEN /\ minor' = SelectMinor(minor, t, current)
                           /\ pc' = "validate"
                           /\ UNCHANGED exitVars
                      ELSE /\ Exit(VerdictCode(v), v)
                           /\ UNCHANGED minor
       ELSE /\ minor' = SelectMinor(minor, target, current)
            /\ pc' = "validate"
            /\ UNCHANGED <<target, exitVars>>
    /\ UNCHANGED <<diskVars, dry_run, force, wants_major, loopVars, procGhost, runGhost>>
    /\ UNCHANGED persisted
    /\ UNCHANGED needsBoot
    /\ UNCHANGED <<q, mcp>>

(***************************************************************************)
(* Mirror validation and the pending-minor gate (lines 1080-1104).         *)
(***************************************************************************)
MirrorSets == SUBSET {CurBranch, NextBranch}

MirrorVerdict(mnr, t, current, mirrorBranches) ==
    IF mnr
    THEN IF Truthy(major(current)) /\ ~validate_mirror(major(current), mirrorBranches)
         THEN "mirror" ELSE "go"
    ELSE IF Truthy(t)
    THEN IF t = current THEN "already_on"
         ELSE IF ~validate_mirror(t, mirrorBranches) THEN "mirror" ELSE "go"
    ELSE "go"

\* A mutation of GateBlocks: the gate never blocks.
GateBlocks_never(mnr, t, current, fwMinor, upd) == FALSE

\* Lines 1096-1104: a major run is refused while a minor update is pending.
GateBlocks(mnr, t, current, fwMinor, upd) ==
    /\ ~mnr /\ Truthy(t)
    /\ Truthy(current) /\ major(current) # major(t)
    /\ Truthy(check_pending_minor(current, fwMinor, upd))

PendingSamples == {NoVer, V(25, 7, MaxPatch)}

Validate ==
    /\ pc = "validate"
    /\ \E mirrorBranches \in MirrorSets, fwMinor \in PendingSamples, upd \in PendingSamples :
          LET current == opnsense_version(sysVer)
              mv == MirrorVerdict(minor, target, current, mirrorBranches)
          IN  IF mv # "go"
              THEN /\ Exit(IF mv = "mirror" THEN 1 ELSE 0, mv)
                   /\ UNCHANGED pendingEnv
              ELSE /\ pendingEnv' = check_pending_minor(current, fwMinor, upd)
                   /\ IF GateBlocks(minor, target, current, fwMinor, upd)
                      THEN Exit(1, "minor_first")
                      ELSE pc' = "begin" /\ UNCHANGED exitVars
    /\ UNCHANGED <<diskVars, argVars, loopVars, executed, cmds, stageTrail, origin,
                   startStage, startVer, mode, inFlight, byHook, second, detectEnv,
                   runGhost>>
    /\ UNCHANGED persisted
    /\ UNCHANGED needsBoot
    /\ UNCHANGED <<q, mcp>>

(***************************************************************************)
(* The in-progress check and the start confirmation (lines 1106-1127).     *)
(***************************************************************************)
\* A mutation of InProgress: the check is skipped.
InProgress_skipped(file) == FALSE

\* Lines 1107-1109: a state file exists and load() returns its record.
InProgress(file) == StateExists(file) /\ LoadOk(file)

Begin ==
    /\ pc = "begin"
    /\ stateFile' = IF StateExists(stateFile) THEN FileAfterLoad(stateFile) ELSE stateFile
    /\ IF StateExists(stateFile) /\ LoadUnusable(stateFile)
       THEN /\ Exit(1, "traceback")
            /\ UNCHANGED <<loopVars, origin, startStage, runGhost>>
       ELSE IF InProgress(stateFile)
       THEN /\ Exit(1, "in_progress")
            /\ UNCHANGED <<loopVars, origin, startStage, runGhost>>
       ELSE \E answer \in BOOLEAN :
               IF ~dry_run /\ ~confirm(force, dry_run, answer)
               THEN /\ Exit(0, "cancelled")
                    /\ UNCHANGED <<loopVars, origin, startStage, runGhost>>
               ELSE /\ pc' = "run"
                    /\ current_stage' = INIT
                    /\ idx' = 1
                    /\ origin' = "fresh"
                    /\ startStage' = INIT
                    /\ IF dry_run /\ stateFile.kind # "torn"
                       THEN UNCHANGED runGhost ELSE RunEnds
                    /\ UNCHANGED <<saveStage, needReboot, exitVars>>
    /\ pendingEnv' = NoVer
    /\ UNCHANGED <<hook, sysVer, booting, argVars, executed, cmds, stageTrail, startVer,
                   mode, inFlight, byHook, second, detectEnv>>
    /\ persisted' = IF LoadOk(stateFile) THEN persisted ELSE INIT
    /\ UNCHANGED needsBoot
    /\ UNCHANGED <<q, mcp>>

\* Lines 1002-1004 on a file load() returns but that is no checkpoint: the
\* KeyError is not caught, the interpreter exits with a traceback.
ResumeRaises ==
    /\ pc = "resume"
    /\ LoadUnusable(stateFile)
    /\ Exit(1, "traceback")
    /\ UNCHANGED <<diskVars, argVars, loopVars, procGhost, runGhost, diskGhost, q, mcp>>

(***************************************************************************)
(* -r: resume from the state file, or from what detect_state finds         *)
(* (lines 999-1038).                                                       *)
(***************************************************************************)
\* A mutation of ResumeTarget: the -t of the resume invocation wins.
ResumeTarget_from_args(file, argTarget) ==
    IF Truthy(argTarget) THEN argTarget ELSE file.version

\* Line 1005: the target of a resume that found a state file.
ResumeTarget(file, argTarget) == file.version

ResumeFromFile ==
    /\ pc = "resume"
    /\ LoadOk(stateFile)
    /\ current_stage' = stateFile.stage
    /\ target' = ResumeTarget(stateFile, target)
    /\ minor' = stateFile.minor_only
    /\ force' = stateFile.force_mode
    /\ pc' = "run"
    /\ origin' = "file"
    /\ startStage' = stateFile.stage
    /\ UNCHANGED <<diskVars, dry_run, wants_major, idx, saveStage, needReboot, exitVars,
                   executed, cmds, stageTrail, startVer, mode, inFlight, byHook, second, pendingEnv,
                   detectEnv, runGhost>>
    /\ UNCHANGED persisted
    /\ UNCHANGED needsBoot
    /\ UNCHANGED <<q, mcp>>

ResumeDetect ==
    /\ pc = "resume"
    /\ ~LoadOk(stateFile) /\ ~LoadUnusable(stateFile)
    /\ stateFile' = FileAfterLoad(stateFile)
    /\ \E abiMismatch, updAvail, versionRead \in BOOLEAN :
       \* Shell.output gives "" when the version command fails (lines 122-125)
       LET current == IF versionRead THEN opnsense_version(sysVer) ELSE NoVer IN
       \E latest \in QueryResults(current, FALSE) :
          LET d0 == detect_state(current, target, abiMismatch, updAvail)
              \* lines 1014-1023
              t1 == IF d0 = INIT /\ ~Truthy(target) THEN latest ELSE target
              d1 == IF d0 = INIT /\ Truthy(t1) /\ Truthy(current)
                       /\ major(current) # major(t1)
                    THEN FIX_PKG ELSE d0
              \* lines 1028-1033
              t2 == IF ~Truthy(t1) THEN latest ELSE t1
          IN  /\ detectEnv' = [called |-> TRUE, cur |-> current, abi |-> abiMismatch,
                                upd |-> updAvail, tgt |-> target, out |-> d0]
              /\ IF d0 = COMPLETE
                 THEN /\ Exit(0, "already_upgraded")
                      /\ UNCHANGED <<target, current_stage, origin, startStage>>
                 ELSE IF d1 = INIT
                 THEN /\ Exit(0, "nothing_to_resume")
                      /\ target' = t1
                      /\ UNCHANGED <<current_stage, origin, startStage>>
                 ELSE IF ~Truthy(t2)
                 THEN /\ Exit(1, "resume_no_target")
                      /\ target' = t2
                      /\ UNCHANGED <<current_stage, origin, startStage>>
                 ELSE /\ target' = t2
                      /\ current_stage' = d1
                      /\ pc' = "run"
                      /\ origin' = "detect"
                      /\ startStage' = d1
                      /\ UNCHANGED exitVars
    /\ UNCHANGED <<hook, sysVer, booting, dry_run, force, minor, wants_major, idx,
                   saveStage, needReboot, executed, cmds, stageTrail, startVer, mode,
                   inFlight, byHook, second, pendingEnv, runGhost>>
    /\ persisted' = INIT
    /\ UNCHANGED needsBoot
    /\ UNCHANGED <<q, mcp>>


(***************************************************************************)
(* run_upgrade: the loop over ORDER (lines 951-971).                       *)
(***************************************************************************)
\* A mutation of Skips: no stage is skipped on resume.
Skips_nothing(stage, cs) == FALSE

\* Line 965: the loop skips a stage below current_stage.
Skips(stage, cs) == stage < cs

\* The position of the next stage the loop executes, from position i on.
RECURSIVE NextIdx(_, _)
NextIdx(i, cs) ==
    IF i >= Len(ORDER) THEN Len(ORDER)
    ELSE IF Skips(ORDER[i], cs) THEN NextIdx(i + 1, cs)
    ELSE i

\* The stage run_upgrade is about to execute.
CurStage == ORDER[NextIdx(idx, current_stage)]

AtStage(stage) == pc = "run" /\ CurStage = stage

\* The handler of `stage` was entered and ran the commands `ran`.
Entered(stage, ran) ==
    /\ idx' = NextIdx(idx, current_stage)
    /\ executed' = Append(executed, stage)
    /\ cmds' = ran
    /\ IF Lost
       THEN RunEnds
       ELSE /\ runNext' = IF dry_run \/ ~runActive THEN runNext ELSE stage
            /\ UNCHANGED <<runActive, runTarget>>
    /\ detectEnv' = NoDetect
    /\ UNCHANGED <<argVars, current_stage, origin, startStage, startVer, mode, inFlight,
                   byHook, second,
                   pendingEnv>>

\* The handler of `stage` was entered and ended the run in flight.
EnteredLast(stage) ==
    /\ idx' = NextIdx(idx, current_stage)
    /\ executed' = Append(executed, stage)
    /\ cmds' = {}
    /\ RunEnds
    /\ detectEnv' = NoDetect
    /\ UNCHANGED <<argVars, current_stage, origin, startStage, startVer, mode, inFlight,
                   byHook, second,
                   pendingEnv>>

\* The handler ends in self.save(next).
ToSave(next, reboot) ==
    /\ pc' = "save"
    /\ saveStage' = next
    /\ needReboot' = reboot
    /\ UNCHANGED exitVars

\* A mutation of FileAfterAbort: the state is cleared, as it is after a
\* declined base/kernel confirmation.
FileAfterAbort_cleared(file) == NoFile

\* run_upgrade, lines 970-971: a handler that returned False ends the process
\* with sys.exit(1); no handler touches the state file before returning False.
FileAfterAbort(file) == file

\* What a handler that may fail leaves of the state file when it returns.
StageLeavesFile ==
    stateFile' = IF pc' = "exited" THEN FileAfterAbort(stateFile) ELSE stateFile

\* A mutation of Abort: the process ends with exit code 0.
Abort_with_zero(reason) ==
    /\ Exit(0, reason)
    /\ UNCHANGED <<saveStage, needReboot>>

\* The handler returned False: sys.exit(1) (line 971).
Abort(reason) ==
    /\ Exit(1, reason)
    /\ UNCHANGED <<saveStage, needReboot>>

(***************************************************************************)
(* self.save(stage) (lines 602-607) and StateManager.save (526-533).       *)
(***************************************************************************)
\* A mutation of AfterSave: the reboot hand-off goes without the boot hook.
AfterSave_without_hook ==
    IF needReboot
    THEN /\ pc' = "reboot"
         /\ UNCHANGED idx
    ELSE /\ pc' = "run"
         /\ idx' = idx + 1

\* What follows a save: the reboot hand-off of the stage, or the next stage.
AfterSave ==
    IF needReboot
    THEN /\ pc' = IF ORDER[idx] = BASE_KERNEL THEN "hook" ELSE "reboot"
         /\ UNCHANGED idx
    ELSE /\ pc' = "run"
         /\ idx' = idx + 1

\* Dry-run: the checkpoint is only logged.
SaveDry ==
    /\ pc = "save" /\ dry_run
    /\ current_stage' = saveStage
    /\ AfterSave
    /\ UNCHANGED <<diskVars, argVars, saveStage, needReboot, exitVars, procGhost, runGhost>>
    /\ UNCHANGED persisted
    /\ UNCHANGED needsBoot
    /\ UNCHANGED <<q, mcp>>

\* open(PATH, "w") truncates the file.
SaveTruncate ==
    /\ pc = "save" /\ ~dry_run
    /\ stateFile' = TornFile
    /\ pc' = "write"
    /\ UNCHANGED <<hook, sysVer, booting, argVars, loopVars, exitVars, procGhost, runGhost>>
    /\ UNCHANGED persisted
    /\ UNCHANGED needsBoot
    /\ UNCHANGED <<q, mcp>>

\* json.dump and close: the new checkpoint is on disk.
SaveWrite ==
    /\ pc = "write"
    /\ stateFile' = SavedRecord(saveStage, target, minor, force)
    /\ current_stage' = saveStage
    /\ AfterSave
    /\ runActive' = TRUE
    /\ runTarget' = IF runActive THEN runTarget ELSE target
    /\ runNext' = saveStage
    /\ UNCHANGED <<hook, sysVer, booting, argVars, saveStage, needReboot, exitVars,
                   procGhost>>
    /\ persisted' = saveStage
    /\ UNCHANGED needsBoot
    /\ UNCHANGED <<q, mcp>>

(***************************************************************************)
(* The stages.                                                             *)
(***************************************************************************)
DiskSamples == {MinDiskMB - 1, MinDiskMB}

\* stage_prechecks (lines 613-650)
stage_prechecks ==
    /\ AtStage(PRECHECKS)
    /\ \E avail_mb \in DiskSamples, dbOk, py37, answer, lockFile, pkgLive \in BOOLEAN :
          LET ran == Ran(dry_run, {"pkg check -Ba"}
                          \cup (IF ~dbOk /\ confirm(force, dry_run, answer)
                                THEN {"pkg check -da"} ELSE {})
                          \cup (IF py37 /\ confirm(force, dry_run, answer)
                                THEN {"pkg delete"} ELSE {}))
              \* lines 629-632: the database has issues and the fix is declined
              declined == IF ~dry_run /\ ~dbOk /\ ~confirm(force, dry_run, answer)
                          THEN <<"db fix declined">> ELSE <<>>
          IN  IF avail_mb < MinDiskMB
              THEN Entered(PRECHECKS, {}) /\ Abort("disk") /\ stageTrail' = <<>>
              ELSE IF lockFile /\ pkgLive
              THEN Entered(PRECHECKS, ran) /\ Abort("pkg_lock") /\ stageTrail' = declined
              ELSE /\ Entered(PRECHECKS,
                              ran \cup (IF lockFile THEN Ran(dry_run, {"rm pkg.lock"})
                                        ELSE {}))
                   /\ ToSave(CLEANUP, FALSE)
                   /\ stageTrail' = declined
    /\ StageLeavesFile
    /\ UNCHANGED <<hook, sysVer, booting>>
    /\ UNCHANGED persisted
    /\ UNCHANGED needsBoot
    /\ UNCHANGED <<q, mcp>>

\* stage_cleanup (lines 652-659)
stage_cleanup ==
    /\ AtStage(CLEANUP)
    /\ \E ok \in BOOLEAN : stageTrail' = Failed(dry_run, ok)
    /\ Entered(CLEANUP, Ran(dry_run, {"pkg autoremove", "pkg clean", "rm tmp"}))
    /\ ToSave(BACKUP, FALSE)
    /\ UNCHANGED diskVars
    /\ UNCHANGED persisted
    /\ UNCHANGED needsBoot
    /\ UNCHANGED <<q, mcp>>

\* stage_backup (lines 661-681)
stage_backup ==
    /\ AtStage(BACKUP)
    /\ stageTrail' = <<>>
    /\ Entered(BACKUP, {})
    /\ \E configExists \in BOOLEAN :
          IF dry_run \/ configExists
          THEN ToSave(BASE_KERNEL, FALSE)
          ELSE Abort("no_config")
    /\ StageLeavesFile
    /\ UNCHANGED <<hook, sysVer, booting>>
    /\ UNCHANGED persisted
    /\ UNCHANGED needsBoot
    /\ UNCHANGED <<q, mcp>>

\* A mutation of SuccBaseKernel: the stage persists itself.
SuccBaseKernel_self(mnr) == BASE_KERNEL

\* The stage stage_base_kernel saves (lines 689, 696, 711, 717).
SuccBaseKernel(mnr) == IF mnr THEN PACKAGES ELSE FIX_PKG

\* stage_base_kernel (lines 683-719)
stage_base_kernel ==
    /\ AtStage(BASE_KERNEL)
    /\ IF minor
       THEN \E pleaseReboot, ok \in BOOLEAN :
               /\ stageTrail' = Failed(dry_run, ok)
               /\ Entered(BASE_KERNEL, Ran(dry_run, {"opnsense-update -bk"}))
               /\ ToSave(SuccBaseKernel(minor), ~dry_run /\ pleaseReboot)
               /\ UNCHANGED diskVars
       ELSE \E answer, ok \in BOOLEAN :
               /\ stageTrail' = <<>>
               /\ IF ~confirm(force, dry_run, answer)
                  THEN /\ EnteredLast(BASE_KERNEL)
                       /\ stateFile' = NoFile
                       /\ Abort("bk_cancelled")
                       /\ UNCHANGED <<hook, sysVer, booting>>
                  ELSE IF ~ShResult(dry_run, ok)
                  THEN /\ Entered(BASE_KERNEL, Ran(dry_run, {"opnsense-update -ubkf"}))
                       /\ Abort("bk_failed")
                       /\ StageLeavesFile
                       /\ UNCHANGED <<hook, sysVer, booting>>
                  ELSE /\ Entered(BASE_KERNEL, Ran(dry_run, {"opnsense-update -ubkf"}))
                       /\ ToSave(SuccBaseKernel(minor), ~dry_run)
                       /\ UNCHANGED diskVars
    /\ persisted' = IF stateFile' = NoFile /\ stateFile # NoFile THEN INIT ELSE persisted
    /\ needsBoot' = IF ~dry_run /\ ~minor /\ pc' = "save" THEN TRUE ELSE needsBoot
    /\ UNCHANGED <<q, mcp>>

\* The checks of stage_fix_pkg that failed, in the order of lines 732-740:
\* "and" evaluates its second operand only when the first holds, the
\* reinstall is tried only after a failed self-test, and the bootstrap only
\* after a failed reinstall.
FixPkgTrail(pkgV, pkgQuery, reinstallOk, pkgV2, bootstrapOk) ==
    IF pkgV /\ pkgQuery THEN <<>>
    ELSE <<(IF ~pkgV THEN "pkg -v failed" ELSE "pkg query failed")>>
         \o (IF reinstallOk /\ pkgV2 THEN <<>>
             ELSE <<(IF ~reinstallOk THEN "reinstall failed" ELSE "pkg -v still failing")>>
                  \o (IF bootstrapOk THEN <<>> ELSE <<"bootstrap failed">>))

\* A mutation of FixPkgFails: the stage gives up without the bootstrap.
FixPkgFails_without_bootstrap(trail) == Len(trail) >= 2

\* stage_fix_pkg returns False only at line 740, after the self-test, the
\* reinstall and the bootstrap have all three failed.
FixPkgFails(trail) == Len(trail) = 3

\* stage_fix_pkg (lines 721-748)
stage_fix_pkg ==
    /\ AtStage(FIX_PKG)
    /\ \E pkgV, pkgQuery, reinstallOk, pkgV2, bootstrapOk \in BOOLEAN :
          LET trail == FixPkgTrail(pkgV, pkgQuery, reinstallOk, pkgV2, bootstrapOk)
          IN  IF dry_run
              THEN /\ stageTrail' = <<>>
                   /\ Entered(FIX_PKG, {})
                   /\ ToSave(PACKAGES, FALSE)
              ELSE /\ stageTrail' = trail
                   /\ IF FixPkgFails(trail)
                      THEN /\ Entered(FIX_PKG, {"pkg-static install", "opnsense-bootstrap"})
                           /\ Abort("bootstrap_failed")
                      ELSE /\ Entered(FIX_PKG, {"pkg-static install"}
                                  \cup (IF Len(trail) = 2 THEN {"opnsense-bootstrap"} ELSE {}))
                           /\ ToSave(PACKAGES, FALSE)
    /\ StageLeavesFile
    /\ UNCHANGED <<hook, sysVer, booting>>
    /\ UNCHANGED persisted
    /\ UNCHANGED needsBoot
    /\ UNCHANGED <<q, mcp>>

\* The version the system reports once the packages of target's branch are in.
Upgraded(t) == IF t.p = NoPart THEN [t EXCEPT !.p = 1, !.r = NoRev] ELSE opnsense_version(t)

\* The newest patch level "opnsense-update -p" can bring the branch to.
LatestPatch(v) == IF major(v) = CurBranch THEN V(25, 7, MaxPatch) ELSE v

\* A mutation of PackagesSteps: the branch is compared before the upgrade.
PackagesSteps_verify_first ==
    <<"switch repo", "verify", "pkg update -f", "pkg upgrade -fy", "opnsense-update">>

\* What stage_packages does on the major path in execute mode, in the order
\* of lines 767-790; of these only a failed switch ends the stage early.
PackagesSteps ==
    <<"switch repo", "pkg update -f", "pkg upgrade -fy", "opnsense-update", "verify">>

\* Position of a step in a sequence of steps (0 when it is not there).
StepAt(steps, name) ==
    IF \E i \in 1..Len(steps) : steps[i] = name
    THEN CHOOSE i \in 1..Len(steps) : steps[i] = name
    ELSE 0

\* The version the comparison of lines 787-788 reads: the packages' version
\* as it is when the comparison is made.
VerifiedVer(steps, old, new) ==
    IF StepAt(steps, "pkg upgrade -fy") < StepAt(steps, "verify")
    THEN opnsense_version(new) ELSE opnsense_version(old)

\* stage_packages (lines 750-795), with _switch_pkg_repo (797-825)
stage_packages ==
    /\ AtStage(PACKAGES)
    /\ IF dry_run
       THEN /\ Entered(PACKAGES, {})
            /\ ToSave(POST_VERIFY, FALSE)
            /\ stageTrail' = <<>>
            /\ UNCHANGED diskVars
       ELSE IF minor
       THEN \E newVer \in {sysVer, LatestPatch(sysVer)} :
               /\ Entered(PACKAGES, {"opnsense-update -p"})
               /\ sysVer' = newVer
               /\ ToSave(POST_VERIFY, FALSE)
               /\ stageTrail' = <<>>
               /\ UNCHANGED <<stateFile, hook, booting>>
       ELSE \E switched \in BOOLEAN, newVer \in {sysVer, Upgraded(target)} :
               IF ~switched
               THEN /\ Entered(PACKAGES, {})
                    /\ Abort("repo_switch")
                    /\ stageTrail' = <<>>
                    /\ StageLeavesFile
                    /\ UNCHANGED <<hook, sysVer, booting>>
               ELSE /\ Entered(PACKAGES, {PackagesSteps[i] : i \in 1..Len(PackagesSteps)}
                                          \ {"verify"})
                    /\ stageTrail' = PackagesSteps
                    /\ sysVer' = newVer
                    /\ UNCHANGED <<hook, booting>>
                    /\ LET ver == VerifiedVer(PackagesSteps, sysVer, newVer)
                       IN  IF ~Truthy(ver) \/ major(ver) # major(target)
                           THEN Abort("still_on_old")
                           ELSE ToSave(POST_VERIFY, FALSE)
                    /\ StageLeavesFile
    /\ UNCHANGED persisted
    /\ UNCHANGED needsBoot
    /\ UNCHANGED <<q, mcp>>

\* stage_post_verify (lines 827-857)
stage_post_verify ==
    /\ AtStage(POST_VERIFY)
    /\ \E dbOk, servicesUp \in BOOLEAN : stageTrail' = Failed(dry_run, dbOk /\ servicesUp)
    /\ Entered(POST_VERIFY, Ran(dry_run, {"pkg check -Ba"}))
    /\ \E rebootRequired, answer \in BOOLEAN :
          ToSave(COMPLETE, ~dry_run /\ rebootRequired /\ confirm(force, dry_run, answer))
    /\ UNCHANGED diskVars
    /\ UNCHANGED persisted
    /\ UNCHANGED needsBoot
    /\ UNCHANGED <<q, mcp>>

\* stage_complete (lines 859-872): in execute mode state.clear() ...
stage_complete ==
    /\ AtStage(COMPLETE)
    /\ stageTrail' = <<>>
    /\ idx' = NextIdx(idx, current_stage)
    /\ executed' = Append(executed, COMPLETE)
    /\ cmds' = {}
    /\ IF dry_run
       THEN /\ Exit(0, "dry_complete")
            /\ UNCHANGED <<stateFile, runGhost>>
       ELSE /\ stateFile' = NoFile
            /\ pc' = "unhook"
            /\ RunEnds
            /\ UNCHANGED exitVars
    /\ UNCHANGED <<hook, sysVer, booting, argVars, current_stage, saveStage, needReboot,
                   origin, startStage, startVer, mode, inFlight, byHook, second, pendingEnv>>
    /\ detectEnv' = NoDetect
    /\ persisted' = IF dry_run THEN persisted ELSE INIT
    /\ needsBoot' = IF dry_run THEN needsBoot ELSE FALSE
    /\ UNCHANGED <<q, mcp>>

\* ... and then _remove_auto_resume()
RemoveHook ==
    /\ pc = "unhook"
    /\ hook' = FALSE
    /\ Exit(0, "complete")
    /\ UNCHANGED <<stateFile, sysVer, booting, argVars, loopVars, procGhost, runGhost>>
    /\ UNCHANGED persisted
    /\ UNCHANGED needsBoot
    /\ UNCHANGED <<q, mcp>>

(***************************************************************************)
(* Reboot and auto-resume (lines 878-925).                                 *)
(***************************************************************************)
\* _reboot: _setup_auto_resume writes the hook ...
SetupAutoResume_writes_nothing ==
    /\ pc = "hook"
    /\ hook' = hook
    /\ pc' = "confirm_reboot"
    /\ UNCHANGED <<stateFile, sysVer, booting, argVars, loopVars, exitVars, procGhost,
                   runGhost>>
    /\ UNCHANGED persisted
    /\ UNCHANGED needsBoot
    /\ UNCHANGED <<q, mcp>>

SetupAutoResume ==
    /\ pc = "hook"
    /\ hook' = TRUE
    /\ pc' = "confirm_reboot"
    /\ UNCHANGED <<stateFile, sysVer, booting, argVars, loopVars, exitVars, procGhost,
                   runGhost>>
    /\ UNCHANGED persisted
    /\ UNCHANGED needsBoot
    /\ UNCHANGED <<q, mcp>>

\* ... then the operator is asked; declining exits 0 with the hook in place.
ConfirmReboot ==
    /\ pc = "confirm_reboot"
    /\ \E answer \in BOOLEAN :
          IF confirm(force, dry_run, answer)
          THEN pc' = "reboot" /\ UNCHANGED exitVars
          ELSE Exit(0, "postponed")
    /\ UNCHANGED <<diskVars, argVars, loopVars, procGhost, runGhost>>
    /\ UNCHANGED persisted
    /\ UNCHANGED needsBoot
    /\ UNCHANGED <<q, mcp>>

\* _do_reboot: shutdown -r now, sys.exit(0)
DoReboot ==
    /\ pc = "reboot"
    /\ booting' = TRUE
    /\ Exit(0, "reboot")
    /\ UNCHANGED <<stateFile, hook, sysVer, argVars, loopVars, procGhost, runGhost>>
    /\ UNCHANGED persisted
    /\ UNCHANGED needsBoot
    /\ UNCHANGED <<q, mcp>>

(***************************************************************************)
(* The environment: process death, reboots, the boot hook.                 *)
(***************************************************************************)
\* The process dies (a crash, or a power cycle, which restarts the machine).
Kill ==
    /\ Running
    /\ ResetProc
    /\ \E power \in BOOLEAN : booting' = power
    /\ IF Lost THEN RunEnds ELSE UNCHANGED runGhost
    /\ UNCHANGED <<stateFile, hook, sysVer>>
    /\ UNCHANGED persisted
    /\ UNCHANGED needsBoot
    /\ UNCHANGED <<q, mcp>>

\* While this process is in its stages in execute mode, the script is started
\* once more in execute mode: by hand or by the boot hook with -r, which loads
\* the state file without looking for a live process (lines 1002-1007,
\* 1036-1037), or as a fresh run, which only the in-progress check and the
\* start confirmation can stop (lines 1107-1127).  Whether that invocation
\* enters run_upgrade is recorded; what it does there is not followed.
SecondInvocation ==
    /\ pc \in {"run", "save", "write", "hook", "confirm_reboot", "reboot", "unhook"}
    /\ ~dry_run /\ ~second
    /\ \E rsm, frc, answer \in BOOLEAN :
          second' = IF rsm THEN LoadOk(stateFile)
                    ELSE ~InProgress(stateFile) /\ ~LoadUnusable(stateFile)
                         /\ confirm(frc, FALSE, answer)
    /\ UNCHANGED <<diskVars, pc, argVars, loopVars, exitVars, executed, cmds, stageTrail,
                   origin,
                   startStage, startVer, mode, inFlight, byHook, pendingEnv, detectEnv,
                   runGhost, diskGhost, q, mcp>>

\* Something else leaves a JSON file that is no checkpoint at the state path
\* while no upgrade is under way.
ForeignFile ==
    /\ pc = "none" /\ ~booting
    /\ stateFile = NoFile /\ ~hook /\ sysVer = InstalledVer
    /\ stateFile' = MalformedFile
    /\ UNCHANGED <<hook, sysVer, booting, pc, argVars, loopVars, exitVars, procGhost,
                   runGhost, diskGhost, q, mcp>>

\* The operator restarts the machine while no orchestrator runs.
ManualReboot ==
    /\ pc = "none" /\ ~booting
    /\ booting' = TRUE
    /\ UNCHANGED <<stateFile, hook, sysVer, pc, argVars, loopVars, exitVars, procGhost,
                   runGhost>>
    /\ UNCHANGED persisted
    /\ UNCHANGED needsBoot
    /\ UNCHANGED <<q, mcp>>

\* rc.local.d runs the hook: "script -x -r" when the state file exists
\* (lines 905-920).
Boot ==
    /\ booting /\ pc = "none"
    /\ booting' = FALSE
    /\ IF hook /\ StateExists(stateFile)
       THEN StartProcess("resume", TRUE, FALSE, FALSE, [kind |-> "none", ver |-> NoVer], TRUE)
       ELSE UNCHANGED <<pc, argVars, loopVars, exitVars, procGhost>>
    /\ UNCHANGED <<stateFile, hook, sysVer, runGhost>>
    /\ UNCHANGED persisted
    /\ needsBoot' = FALSE
    /\ UNCHANGED <<q, mcp>>

Next ==
    \/ Invoke \/ Reap \/ ShowHelp \/ RunQuery \/ RunClean \/ RunBackup
    \/ Resolve \/ Validate \/ Begin
    \/ ResumeFromFile \/ ResumeDetect \/ ResumeRaises
    \/ stage_prechecks \/ stage_cleanup \/ stage_backup \/ stage_base_kernel
    \/ stage_fix_pkg \/ stage_packages \/ stage_post_verify \/ stage_complete
    \/ RemoveHook
    \/ SaveDry \/ SaveTruncate \/ SaveWrite
    \/ SetupAutoResume \/ ConfirmReboot \/ DoReboot
    \/ Kill \/ ManualReboot \/ Boot \/ ForeignFile \/ SecondInvocation

Spec == Init /\ [][Next]_vars

(***************************************************************************)
(* Progress: no process death; a live process takes its next step, an      *)
(* exited one is gone, and a machine that is restarting comes up.          *)
(***************************************************************************)
ProcessStep ==
    \/ Reap \/ ShowHelp \/ RunQuery \/ RunClean \/ RunBackup
    \/ Resolve \/ Validate \/ Begin
    \/ ResumeFromFile \/ ResumeDetect \/ ResumeRaises
    \/ stage_prechecks \/ stage_cleanup \/ stage_backup \/ stage_base_kernel
    \/ stage_fix_pkg \/ stage_packages \/ stage_post_verify \/ stage_complete
    \/ RemoveHook
    \/ SaveDry \/ SaveTruncate \/ SaveWrite
    \/ SetupAutoResume \/ ConfirmReboot \/ DoReboot

NextLive ==
    ProcessStep \/ Invoke \/ ManualReboot \/ Boot \/ ForeignFile \/ SecondInvocation

LiveSpec ==
    /\ Init
    /\ [][NextLive]_vars
    /\ WF_vars(ProcessStep)
    /\ WF_vars(Boot)


(***************************************************************************)
(* query_latest on its own: the inputs are drawn at the start, the object  *)
(* is called MaxCalls times, nothing else runs.                            *)
(***************************************************************************)
\* Everything but q and mcp.
mainVars ==
    <<stateFile, hook, sysVer, booting, pc, dry_run, force, minor, wants_major,
      target, current_stage, idx, saveStage, needReboot, exitCode, exitReason,
      executed, cmds, stageTrail, origin, startStage, startVer, mode, inFlight, byHook,
      second, pendingEnv, detectEnv,
      persisted, needsBoot, runActive, runTarget, runNext>>

QInit ==
    /\ InitMain
    /\ \E cur \in QueryCurrents, mo, conf \in BOOLEAN, e \in ProbeEnvs :
          q = QNew(cur, mo, conf, e)
    /\ mcp = McpOff

\* query_latest is entered (lines 279-280).
QCall ==
    /\ q.pc \in {"idle", "done"} /\ q.calls < MaxCalls
    /\ q' = [q EXCEPT !.pc = "m1", !.fmaj = NoVer, !.fmin = NoVer, !.probed = <<>>,
                       !.prev = q.out, !.out = NoVer, !.calls = q.calls + 1]
    /\ UNCHANGED <<mainVars, mcp>>

\* Method 1, configctl firmware status (lines 285-293), with the filter of
\* _parse_firmware on the minor candidate (lines 375-377).
QFirmware ==
    /\ q.pc = "m1"
    /\ q' = [q EXCEPT !.pc = "m2",
                       !.fmaj = IF q.mo THEN NoVer ELSE q.e.fwMajor,
                       !.fmin = IF Truthy(q.e.fwMinor) /\ q.e.fwMinor # q.cur
                                THEN q.e.fwMinor ELSE NoVer]
    /\ UNCHANGED <<mainVars, mcp>>

\* Method 2, _probe_mirrors (lines 295-298); q.probed are the branches whose
\* meta.conf it asks for.
QProbeMirrors ==
    /\ q.pc = "m2"
    /\ IF ~q.mo /\ ~Truthy(q.fmaj) /\ Truthy(q.cur)
       THEN LET url == mirror_url(q.cache, q.conf)
                repos == ReposAt(url, q.conf, q.e.repos)
                cands == ProbeCandidates(q.cur)
            IN  q' = [q EXCEPT !.pc = "m3", !.cache = url,
                               !.probed = SubSeq(cands, 1, ProbedCount(cands, repos)),
                               !.fmaj = probe_mirrors(q.cur, repos, q.e.rev)]
       ELSE q' = [q EXCEPT !.pc = "m3"]
    /\ UNCHANGED <<mainVars, mcp>>

\* Method 3, opnsense-update -c (lines 300-309).
QUpdateCheck ==
    /\ q.pc = "m3"
    /\ q' = [q EXCEPT !.pc = "m4",
                       !.fmin = IF Truthy(q.e.upd) /\ (~Truthy(q.fmin) \/ q.fmin = q.cur)
                                THEN q.e.upd ELSE q.fmin]
    /\ UNCHANGED <<mainVars, mcp>>

\* Method 4, _probe_mirror_minor (lines 311-315).
QProbeMinor ==
    /\ q.pc = "m4"
    /\ IF (~Truthy(q.fmin) \/ q.fmin = q.cur) /\ Truthy(q.cur)
       THEN LET url == mirror_url(q.cache, q.conf)
                patched == ProbeAt(url, q.conf, q.e.patched)
            IN  q' = [q EXCEPT !.pc = "m5", !.cache = url,
                               !.fmin = IF Truthy(patched) /\ patched # q.cur
                                        THEN patched ELSE q.fmin]
       ELSE q' = [q EXCEPT !.pc = "m5"]
    /\ UNCHANGED <<mainVars, mcp>>

\* Method 5, _check_changelog (lines 317-319).
QChangelog ==
    /\ q.pc = "m5"
    /\ IF ~q.mo /\ Truthy(q.e.cl) /\ Truthy(q.cur)
       THEN q' = [q EXCEPT !.pc = "ret",
                           !.fmaj = ChangelogMajor(q.cur, q.fmaj, q.e.cl),
                           !.fmin = ChangelogMinor(q.cur, q.fmin, q.e.cl)]
       ELSE q' = [q EXCEPT !.pc = "ret"]
    /\ UNCHANGED <<mainVars, mcp>>

\* The return (lines 324-329).
QReturn ==
    /\ q.pc = "ret"
    /\ q' = [q EXCEPT !.pc = "done",
                       !.out = IF Truthy(q.fmaj) THEN q.fmaj
                               ELSE IF Truthy(q.fmin) /\ q.fmin # q.cur THEN q.fmin
                               ELSE q.cur]
    /\ UNCHANGED <<mainVars, mcp>>

QNext ==
    \/ QCall \/ QFirmware \/ QProbeMirrors \/ QUpdateCheck \/ QProbeMinor
    \/ QChangelog \/ QReturn

QuerySpec == QInit /\ [][QNext]_vars


(***************************************************************************)
(* The MCP server on its own: one server started with some setting of      *)
(* OPNSENSE_READ_ONLY, tool calls one after the other, and a firewall      *)
(* whose firmware state changes between the requests.                      *)
(***************************************************************************)
McpInit ==
    /\ InitMain
    /\ q = QIdle
    /\ \E setting \in ReadOnlySettings, fw \in FirewallStates : mcp = McpNew(setting, fw)

\* The call returns (a text, or the ValueError re-raised at line 381).
McpReturn(sent, outcome) ==
    mcp' = [mcp EXCEPT !.pc = "idle", !.sent = sent, !.outcome = outcome]

\* call_tool is entered (line 91).
McpCall ==
    /\ mcp.pc = "idle"
    /\ \E name \in ToolNames :
          mcp' = [mcp EXCEPT !.pc = "called", !.tool = name, !.sent = <<>>,
                             !.outcome = "none"]
    /\ UNCHANGED <<mainVars, q>>

\* The tools that only read; a request that fails ends the call with the
\* message of lines 366-379.
McpReadTool ==
    /\ mcp.pc = "called" /\ mcp.tool \in ReadTools
    /\ LET reqs == ReadRequests(mcp.tool)
       IN  \E failAt \in 0..Len(reqs) :
              IF failAt = 0
              THEN McpReturn(reqs, "text")
              ELSE McpReturn(SubSeq(reqs, 1, failAt), "api error")
    /\ UNCHANGED <<mainVars, q>>

\* Lines 363-364.
McpUnknownTool ==
    /\ mcp.pc = "called" /\ mcp.tool \notin ReadTools \cup WriteTools
    /\ McpReturn(<<>>, "error: unknown tool")
    /\ UNCHANGED <<mainVars, q>>

\* run_update and run_upgrade up to their first test (lines 216-220,
\* 230-234).
McpCheckRunning ==
    /\ mcp.pc = "called" /\ mcp.tool \in {"run_update", "run_upgrade"}
    /\ IF ~check_writable(mcp.read_only)
       THEN McpReturn(<<>>, "error: read-only")
       ELSE \E ok \in BOOLEAN :
               IF ~ok THEN McpReturn(<<"GET upgradestatus">>, "api error")
               ELSE IF mcp.fw.running
               THEN McpReturn(<<"GET upgradestatus">>, "already running")
               ELSE mcp' = [mcp EXCEPT !.pc = "checked", !.sent = <<"GET upgradestatus">>]
    /\ UNCHANGED <<mainVars, q>>

\* run_update, lines 221-227.
McpRunUpdate ==
    /\ mcp.pc = "checked" /\ mcp.tool = "run_update"
    /\ \E ok, posted \in BOOLEAN :
          LET read == Append(mcp.sent, "GET status")
          IN  IF ~ok THEN McpReturn(read, "api error")
              ELSE IF mcp.fw.status = "none" THEN McpReturn(read, "up to date")
              ELSE IF ~posted THEN McpReturn(Append(read, "POST update"), "api error")
              ELSE mcp' = [mcp EXCEPT !.pc = "idle", !.sent = Append(read, "POST update"),
                                      !.outcome = "update triggered",
                                      !.fw.running = TRUE]
    /\ UNCHANGED <<mainVars, q>>

\* run_upgrade, lines 235-267.
McpRunUpgrade ==
    /\ mcp.pc = "checked" /\ mcp.tool = "run_upgrade"
    /\ \E ok, posted \in BOOLEAN :
          LET read == Append(mcp.sent, "GET status")
              verdict == UpgradeVerdict(mcp.fw)
          IN  IF ~ok THEN McpReturn(read, "api error")
              ELSE IF verdict # "go" THEN McpReturn(read, verdict)
              ELSE IF ~posted THEN McpReturn(Append(read, "POST upgrade"), "api error")
              ELSE mcp' = [mcp EXCEPT !.pc = "idle", !.sent = Append(read, "POST upgrade"),
                                      !.outcome = "upgrade triggered",
                                      !.fw.running = TRUE]
    /\ UNCHANGED <<mainVars, q>>

\* reboot, lines 269-273.
McpReboot ==
    /\ mcp.pc = "called" /\ mcp.tool = "reboot"
    /\ IF ~check_writable(mcp.read_only)
       THEN McpReturn(<<>>, "error: read-only")
       ELSE \E ok \in BOOLEAN :
               McpReturn(<<"POST reboot">>, IF ok THEN "reboot initiated" ELSE "api error")
    /\ UNCHANGED <<mainVars, q>>

\* The firewall's firmware state changes while no request is being served.
FirewallChanges ==
    /\ mcp.pc \in {"idle", "checked"}
    /\ \E fw \in FirewallStates \ {mcp.fw} : mcp' = [mcp EXCEPT !.fw = fw]
    /\ UNCHANGED <<mainVars, q>>

McpNext ==
    \/ McpCall \/ McpReadTool \/ McpUnknownTool \/ McpCheckRunning \/ McpRunUpdate
    \/ McpRunUpgrade \/ McpReboot \/ FirewallChanges

McpSpec == McpInit /\ [][McpNext]_vars


(***************************************************************************)
(* Vocabulary of the properties.                                           *)
(***************************************************************************)
\* The successor table of the stages: stage -> the stage persisted on success.
Successor(stage, mnr) ==
    CASE stage = PRECHECKS -> CLEANUP
      [] stage = CLEANUP -> BACKUP
      [] stage = BACKUP -> BASE_KERNEL
      [] stage = BASE_KERNEL -> (IF mnr THEN PACKAGES ELSE FIX_PKG)
      [] stage = FIX_PKG -> PACKAGES
      [] stage = PACKAGES -> POST_VERIFY
      [] stage = POST_VERIFY -> COMPLETE
      [] OTHER -> COMPLETE

\* The stages from `stage` to Complete along the successor table.
RECURSIVE Chain(_, _)
Chain(stage, mnr) ==
    IF stage = COMPLETE THEN <<COMPLETE>>
    ELSE <<stage>> \o Chain(Successor(stage, mnr), mnr)

\* Every stage of the canonical order that is not before `stage`.
StagesFrom(stage) == SelectSeq(ORDER, LAMBDA x : x >= stage)

IsPrefix(s, t) == Len(s) <= Len(t) /\ SubSeq(t, 1, Len(s)) = s

LastExecuted == IF executed = <<>> THEN INIT ELSE executed[Len(executed)]

\* The process is in run_upgrade or in what a stage hands over to.
StagePcs == {"run", "save", "write", "hook", "confirm_reboot", "reboot", "unhook"}

Finished == pc = "exited" /\ exitReason \in {"complete", "dry_complete"}

(***************************************************************************)
(* C1: resume from the stage of the state file.                            *)
(***************************************************************************)
\* C1 as stated: a process resumed from a state file whose stage is S, once
\* it reaches Complete, has executed exactly the stages of the canonical
\* order that are not before S.
C1_ExactlyStagesFromS ==
    (origin = "file" /\ Finished) => executed = StagesFrom(startStage)

\* C1, amended: a process resumed from a state file whose stage is S executes
\* no stage before S; what it executes is a prefix of the successor chain
\* from S (FixPkg is not on the minor path's chain), the whole chain once it
\* completes; and every checkpoint it leaves holds a stage not before S.
C1_ResumeFollowsChain ==
    origin = "file" =>
        /\ \A i \in 1..Len(executed) : executed[i] >= startStage
        /\ IsPrefix(executed, Chain(startStage, minor))
        /\ (Finished => executed = Chain(startStage, minor))
        /\ (LoadOk(stateFile) => stateFile.stage >= startStage)

\* A minor-path run resumed at BaseKernel completed without FixPkg.
C1_Witness ==
    /\ origin = "file" /\ ~dry_run /\ minor
    /\ startStage = BASE_KERNEL
    /\ pc = "exited" /\ exitReason = "complete"
    /\ executed = <<BASE_KERNEL, PACKAGES, POST_VERIFY, COMPLETE>>


(***************************************************************************)
(* C2: a successful stage persists its successor.                          *)
(***************************************************************************)
\* C2: whenever a checkpoint is completed in execute mode, its stage is the
\* successor of the stage that just succeeded (BaseKernel -> FixPkg on the
\* major path, BaseKernel -> Packages on the minor path), and over the
\* lifetime of one state file the persisted stage never decreases.
C2_SuccessorPersisted ==
    [][ /\ (pc = "write" /\ LoadOk(stateFile'))
            => /\ stateFile'.stage = Successor(LastExecuted, minor)
               /\ persisted' = stateFile'.stage
        /\ (persisted' # INIT => persisted' >= persisted)
      ]_vars

\* On the minor path BaseKernel has just succeeded and the file says Packages.
C2_Witness ==
    /\ ~dry_run /\ minor /\ Running
    /\ LastExecuted = BASE_KERNEL
    /\ LoadOk(stateFile) /\ stateFile.stage = PACKAGES
    /\ persisted = PACKAGES

(***************************************************************************)
(* C3: resumability after a process death.                                 *)
(***************************************************************************)
\* C3 as stated: while a run with a checkpoint is in flight, a process started
\* by a resume begins at the stage the run has to execute next (the stage that
\* was executing when the previous process died, or its successor when the
\* checkpoint was written), and never finds nothing to resume.
C3_ResumesWhereItDied ==
    runActive =>
        /\ (origin \in {"file", "detect"} /\ ~dry_run /\ pc = "run" /\ executed = <<>>
               => current_stage = runNext)
        /\ ~(mode = "resume" /\ ~dry_run /\ pc = "exited"
             /\ exitReason \in {"nothing_to_resume", "already_upgraded", "resume_no_target"})

(***************************************************************************)
(* C4: checkpoint, then hook, then reboot.                                 *)
(***************************************************************************)
\* C4: on the major path in execute mode, once BaseKernel's replacement
\* command has succeeded, the state file holds FixPkg before the boot hook
\* is installed, and the hook is installed with the file still holding
\* FixPkg before the operator is asked to reboot, before the reboot, and
\* before the process exits.
C4_StateThenHookThenReboot ==
    (~dry_run /\ ~minor /\ LastExecuted = BASE_KERNEL) =>
        /\ pc = "hook" => (LoadOk(stateFile) /\ stateFile.stage = FIX_PKG)
        /\ pc \in {"confirm_reboot", "reboot"}
              => (hook /\ LoadOk(stateFile) /\ stateFile.stage = FIX_PKG)
        /\ (pc = "exited" /\ exitReason \notin {"bk_cancelled", "bk_failed"})
              => /\ hook /\ LoadOk(stateFile) /\ stateFile.stage = FIX_PKG
                 /\ exitReason \in {"postponed", "reboot"}

\* The major-path BaseKernel is about to ask for the reboot.
C4_Witness ==
    /\ ~dry_run /\ ~minor /\ LastExecuted = BASE_KERNEL
    /\ pc = "confirm_reboot"
    /\ hook /\ LoadOk(stateFile) /\ stateFile.stage = FIX_PKG


(***************************************************************************)
(* C5: a run in flight blocks a fresh start.                               *)
(***************************************************************************)
\* C5 as stated: an upgrade invocation without resume and without clean that
\* finds a state file with valid content executes no stage, exits non-zero,
\* and leaves the file as it was.
C5_FreshRefusedNonZero ==
    (mode = "resolve" /\ inFlight) =>
        /\ executed = <<>>
        /\ LoadOk(stateFile)
        /\ (pc = "exited" => exitCode # 0)

\* The state file stops holding a checkpoint only by these steps: the explicit
\* clean, the Complete stage, the declined BaseKernel confirmation, or the
\* truncation that opens every save.
LosesCheckpointBy ==
    \/ pc = "clean"
    \/ (pc = "run" /\ ~dry_run /\ CurStage = COMPLETE)
    \/ (pc = "run" /\ ~dry_run /\ ~minor /\ CurStage = BASE_KERNEL
        /\ exitReason' = "bk_cancelled")
    \/ (pc = "save" /\ ~dry_run /\ stateFile' = TornFile)

\* C5, amended: such an invocation executes no stage and leaves the state
\* file as it was, in dry-run and in execute mode; it exits non-zero unless
\* it returned before the in-progress check (already on the latest version,
\* only a minor update found for -t without a version, already on the
\* requested version), in which case it exits 0.  A valid state file loses
\* its checkpoint only by an explicit clean, by completion, by a declined
\* major BaseKernel confirmation, or by the truncation at the start of a
\* save (which a process death turns into an empty file the next load
\* deletes).
C5_FreshRefused ==
    /\ [] ( (mode = "resolve" /\ inFlight) =>
              /\ executed = <<>>
              /\ pc \notin StagePcs
              /\ LoadOk(stateFile)
              /\ (pc = "exited" =>
                     \/ exitCode # 0
                     \/ exitReason \in {"up_to_date", "only_minor", "already_on"}) )
    /\ [][ (mode = "resolve" /\ inFlight) => stateFile' = stateFile ]_vars
    /\ [][ (LoadOk(stateFile) /\ ~LoadOk(stateFile')) => LosesCheckpointBy ]_vars

\* A fresh start in execute mode was refused because a run is in flight.
C5_Witness ==
    /\ mode = "resolve" /\ inFlight /\ ~dry_run
    /\ pc = "exited" /\ exitReason = "in_progress" /\ exitCode = 1
    /\ LoadOk(stateFile)

(***************************************************************************)
(* C6: the target of a run.                                                *)
(***************************************************************************)
\* C6 as stated: once a run has written its first checkpoint, every later
\* checkpoint of the run holds, and every execute-mode process working on
\* the run uses, the target chosen at the start.
C6_TargetFixed ==
    runActive =>
        /\ (LoadOk(stateFile) => stateFile.version = runTarget)
        /\ (~dry_run /\ pc \in StagePcs /\ origin \in {"file", "detect"}
               => target = runTarget)

(***************************************************************************)
(* C7: dry-run changes nothing.                                            *)
(***************************************************************************)
\* C7: in dry-run mode no command runs through the shell, the process never
\* writes the state file, installs or removes the hook, or reboots, and
\* a stage's save changes nothing on disk while the in-memory stage advances
\* to the successor of the stage just executed.
C7_DryRunIsInert ==
    /\ [] ( (dry_run /\ mode \in {"resolve", "resume"}) =>
              /\ cmds = {}
              /\ pc \notin {"write", "hook", "confirm_reboot", "reboot", "unhook"}
              /\ (pc = "exited" => exitReason \notin {"reboot", "postponed", "complete"}) )
    /\ [][ (dry_run /\ pc \in {"run", "save"})
              => (stateFile' = stateFile /\ hook' = hook /\ sysVer' = sysVer) ]_vars
    /\ [][ (dry_run /\ pc = "save" /\ pc' # "none")
              => current_stage' = Successor(LastExecuted, minor) ]_vars

\* A dry run of a major upgrade went through every stage.
C7_Witness ==
    /\ dry_run /\ origin = "fresh" /\ ~minor
    /\ pc = "exited" /\ exitReason = "dry_complete"
    /\ executed = ORDER
    /\ stateFile = NoFile /\ ~hook


C9_SameBranchRunsMinor ==
    (mode = "resolve" /\ pc # "resolve" /\ Truthy(target) /\ target # startVer
     /\ major(target) = major(startVer))
        => (minor /\ ~(pc = "exited" /\ exitReason = "only_minor"))

\* C9, amended: with the resolved target in the current branch the
\* pending-minor gate never triggers and no stage executes outside minor
\* mode.  Auto-detection without -t and -t with an explicit version turn the
\* minor mode on (unless auto-detection found the installed version, which
\* ends the invocation with exit 0).  -t without a version does not run the
\* minor path: when the version it resolves to is in the current branch and is
\* not the installed one, the invocation ends with exit 0 and no stage.
C9_SameBranch ==
    (mode = "resolve" /\ pc # "resolve" /\ Truthy(target)
     /\ major(target) = major(startVer))
        => /\ exitReason # "minor_first"
           /\ (executed # <<>> => minor)
           /\ (~wants_major /\ ~(pc = "exited" /\ exitReason = "up_to_date") => minor)
           /\ (wants_major /\ target # startVer
                  => /\ pc = "exited" /\ exitReason = "only_minor" /\ exitCode = 0
                     /\ executed = <<>>)

\* A run whose target was found in the current branch completed in minor mode.
C9_Witness ==
    /\ mode = "resolve" /\ origin = "fresh" /\ ~dry_run /\ minor
    /\ target = V(25, 7, MaxPatch) /\ startVer = InstalledVer
    /\ pc = "exited" /\ exitReason = "complete"

(***************************************************************************)
(* C10: -m with a target in another branch.                                *)
(***************************************************************************)
\* C10 as stated: a fresh invocation in minor mode whose target is in a
\* branch other than the installed one executes no stage and writes no
\* checkpoint.  (The minor mode is only turned on by the program for a target
\* in the current branch, so here it was requested with -m.)
C10_MinorAcrossBranchesRejected ==
    (mode = "resolve" /\ minor /\ Truthy(target) /\ major(target) # major(startVer))
        => /\ executed = <<>>
           /\ pc \notin StagePcs


(***************************************************************************)
(* C11: minor mode and the branch of the target.                           *)
(***************************************************************************)
\* C11 as stated, for fresh runs: whenever a stage has executed, the minor
\* mode is on exactly when the target's branch is the branch of the version
\* that was installed when the run started.
C11_MinorIffSameBranch ==
    (origin = "fresh" /\ executed # <<>>)
        => (minor <=> major(target) = major(startVer))


(***************************************************************************)
(* C12: a state file that is no checkpoint.                                *)
(***************************************************************************)
\* C12 as stated: a state file that is empty, is not JSON, or is JSON but no
\* checkpoint never makes the program fail with an error of its own, and once
\* a run has got past its load() no such file is left.
C12_BadFileIsDropped ==
    /\ ~(pc = "exited" /\ exitReason = "traceback")
    /\ (origin \in {"fresh", "file", "detect"} /\ pc # "write")
          => stateFile.kind \notin {"torn", "malformed"}


(***************************************************************************)
(* C14: the save and process death.                                        *)
(***************************************************************************)
\* C14 as stated: whenever no orchestrator process is alive (so also after a
\* process was killed during a save), the state file, if there is one, holds a
\* whole checkpoint: it is never empty or partially written.
C14_SaveIsAtomic ==
    pc = "none" => stateFile.kind # "torn"


(***************************************************************************)
(* C13: a run without failures completes.                                  *)
(***************************************************************************)
\* No stage fails, no confirmation is declined, nobody cleans the state.
Smooth ==
    exitReason \notin {"disk", "pkg_lock", "no_config", "bk_cancelled", "bk_failed",
                       "bootstrap_failed", "repo_switch", "still_on_old",
                       "postponed", "cancelled", "clean", "traceback"}

\* C13 as stated: if no stage ever fails and no confirmation is ever declined,
\* then, the machine coming up again after every reboot, a run that has
\* written a checkpoint in execute mode leads to the Complete stage, with the
\* state file deleted and the boot hook removed.
C13_RunCompletes ==
    ([]Smooth) =>
        ((runActive /\ ~dry_run /\ pc \in StagePcs)
            ~> (exitReason = "complete" /\ stateFile = NoFile /\ ~hook))


(***************************************************************************)
(* C15: the reboot between BaseKernel and the package stages.              *)
(***************************************************************************)
\* C15 as stated, for processes resumed from the state file: on the major
\* path in execute mode FixPkg and Packages never execute while the machine
\* has not restarted since the base/kernel replacement command succeeded.
C15_RebootBeforePackages ==
    ~(needsBoot /\ ~dry_run /\ ~minor /\ origin = "file"
      /\ LastExecuted \in {FIX_PKG, PACKAGES})


(***************************************************************************)
(* C16: one orchestrator at a time.                                        *)
(***************************************************************************)
\* C16 as stated: while a process is in its stages in execute mode, no second
\* invocation gets as far as executing stages.
C16_OneAtATime ==
    (~dry_run /\ pc \in StagePcs) => ~second


(***************************************************************************)
(* C17: preconditions of the base/kernel replacement.                      *)
(***************************************************************************)
ExecutedStages == {executed[i] : i \in 1..Len(executed)}

\* C17 as stated: when the base/kernel command has run in execute mode, the
\* run has been through Prechecks and Backup: in this process, or in an
\* earlier one, whose checkpoint (Cleanup or later witnesses Prechecks,
\* BaseKernel witnesses Backup) this process resumed from.
C17_PrechecksBeforeBaseKernel ==
    (~dry_run /\ LastExecuted = BASE_KERNEL
     /\ cmds \cap {"opnsense-update -bk", "opnsense-update -ubkf"} # {})
        => \/ origin = "fresh" /\ {PRECHECKS, BACKUP} \subseteq ExecutedStages
           \/ origin = "file" /\ (startStage = BASE_KERNEL \/ BACKUP \in ExecutedStages)

\* C18: declining the reboot prompt after a BaseKernel stage that requires a
\* reboot ends the process with exit status 0, the boot hook installed and the
\* state file holding the stage after BaseKernel (FixPkg on the major path,
\* Packages on the minor path); a boot with the hook in place starts a resume,
\* and a resume that loads a state file continues from exactly the stage the
\* file holds.
C18_PostponedKeepsCheckpoint ==
    /\ [](exitReason = "postponed"
             => /\ exitCode = 0
                /\ hook
                /\ LoadOk(stateFile)
                /\ LastExecuted = BASE_KERNEL
                /\ stateFile.stage = Successor(BASE_KERNEL, minor))
    /\ [][(booting /\ ~booting' /\ hook /\ LoadOk(stateFile)) => pc' = "resume"]_vars
    /\ [][(pc = "resume" /\ LoadOk(stateFile) /\ pc' = "run")
             => (current_stage' = stateFile.stage /\ CurStage' = stateFile.stage)]_vars

C18_Witness ==
    /\ pc = "exited" /\ exitReason = "postponed" /\ exitCode = 0
    /\ minor /\ hook /\ LoadOk(stateFile) /\ stateFile.stage = PACKAGES

\* C19: a resume launched by the boot hook runs in force mode, so no prompt of
\* the resumed stages can be declined, whether or not the original run was
\* started with force.
C19_HookResumeIsForced ==
    /\ (byHook /\ ~dry_run /\ pc \in StagePcs \cup {"confirm_reboot"}) => force
    /\ (byHook /\ pc = "exited") => exitReason \notin {"postponed", "cancelled"}

\* C20: re-detection answers by the first signal that applies, in this order:
\* FixPkg on an ABI mismatch; Complete when a target is given and the
\* installed branch is the target's branch; BaseKernel when updates are
\* available; FixPkg when a target is given and the installed branch differs
\* from the target's branch; Init otherwise.  As stated, "differs" includes
\* an installed version that could not be read.
C20_DetectByPriority ==
    detectEnv.called =>
        detectEnv.out =
            IF detectEnv.abi THEN FIX_PKG
            ELSE IF Truthy(detectEnv.tgt) /\ major(detectEnv.cur) = major(detectEnv.tgt)
                 THEN COMPLETE
            ELSE IF detectEnv.upd THEN BASE_KERNEL
            ELSE IF Truthy(detectEnv.tgt) /\ major(detectEnv.cur) # major(detectEnv.tgt)
                 THEN FIX_PKG
            ELSE INIT

\* C20 amended: the fourth signal applies only when the installed version
\* could be read; with no readable version, a target and neither an ABI
\* mismatch nor available updates, the answer is Init.
C20_DetectByPriorityKnownVersion ==
    detectEnv.called =>
        detectEnv.out =
            IF detectEnv.abi THEN FIX_PKG
            ELSE IF Truthy(detectEnv.tgt) /\ major(detectEnv.cur) = major(detectEnv.tgt)
                 THEN COMPLETE
            ELSE IF detectEnv.upd THEN BASE_KERNEL
            ELSE IF Truthy(detectEnv.tgt) /\ Truthy(detectEnv.cur)
                    /\ major(detectEnv.cur) # major(detectEnv.tgt)
                 THEN FIX_PKG
            ELSE INIT

\* an ABI mismatch overrides a target on the installed branch and pending updates
C20_Witness ==
    /\ detectEnv.called /\ detectEnv.abi /\ detectEnv.upd
    /\ Truthy(detectEnv.tgt) /\ major(detectEnv.cur) = major(detectEnv.tgt)
    /\ detectEnv.out = FIX_PKG

\* C21: a query_latest call, with either value of minor_only, leaves the state
\* file, the boot hook and the package repository configuration as they are,
\* and a second call on the unchanged system and mirrors returns what the
\* first returned.
C21_QueryReadOnly ==
    /\ [][q.pc # "off" => (UNCHANGED <<stateFile, hook>> /\ q'.conf = q.conf)]_vars
    /\ []((q.pc = "done" /\ q.calls >= 2) => q.out = q.prev)

C21_Witness ==
    /\ q.pc = "done" /\ q.calls = 2 /\ q.cache # ""
    /\ q.out = q.prev /\ Truthy(q.out) /\ q.out # q.cur
    /\ stateFile = NoFile /\ ~hook

\* C22: query_latest returns the major candidate when there is one, else the
\* minor candidate when there is one and it differs from the installed
\* version, else the installed version; and a caller that had no target and
\* gets the installed version back takes the system as up to date: it ends
\* without executing a stage.
C22_ReturnPolicy ==
    /\ [](q.pc = "done" =>
             q.out = IF Truthy(q.fmaj) THEN q.fmaj
                     ELSE IF Truthy(q.fmin) /\ q.fmin # q.cur THEN q.fmin
                     ELSE q.cur)
    /\ [][(pc \in {"resolve", "resume"} /\ ~Truthy(target) /\ Truthy(target')
              /\ target' = startVer)
             => (pc' = "exited" /\ executed' = <<>>)]_vars

\* C23: from the second detection method on, a major candidate that is set is
\* never replaced and is the version returned, and the minor candidate
\* changes only while it is unset or equal to the installed version.
C23_CandidatesKept ==
    [][q.pc \in {"m2", "m3", "m4", "m5", "ret"} =>
          /\ Truthy(q.fmaj) => (q'.fmaj = q.fmaj /\ (q'.pc = "done" => q'.out = q.fmaj))
          /\ q'.fmin # q.fmin => (~Truthy(q.fmin) \/ q.fmin = q.cur)]_vars

\* the mirror's candidate stands against the changelog's, the firmware's minor
\* candidate against the update check's
C23_Witness ==
    /\ q.pc = "done" /\ q.out = NextRev /\ q.e.cl = NextBranch
    /\ Truthy(q.e.upd) /\ Truthy(q.e.fwMinor) /\ q.e.upd # q.e.fwMinor
    /\ q.fmin = q.e.fwMinor

\* C24: the branch projection of a version does not depend on a trailing
\* "_<revision>": the version query_latest returns projects to the same
\* branch with and without its suffix, a plain YY.M.
C24_SuffixNeverChangesBranch ==
    q.pc = "done" =>
        /\ major(q.out) = major([q.out EXCEPT !.r = NoRev])
        /\ major(q.out).p = NoPart /\ major(q.out).r = NoRev

\* The ends of an invocation that did what was asked or had nothing to do ...
InformationalExits ==
    {"help", "query_found", "query_up_to_date", "clean", "backup_done", "up_to_date",
     "only_minor", "already_on", "already_upgraded", "nothing_to_resume", "cancelled",
     "reboot", "postponed", "complete", "dry_complete"}

\* ... and those where a precondition or a stage stopped the operation.
AbortedExits ==
    {"no_target", "minor_is_major", "mirror", "minor_first", "in_progress",
     "resume_no_target", "backup_no_config", "disk", "pkg_lock", "no_config",
     "bk_cancelled", "bk_failed", "bootstrap_failed", "repo_switch", "still_on_old"}

\* C25: the exit code is 0 when the invocation succeeded or was an
\* informational no-op, and non-zero when a precondition check or a stage
\* failure stopped the operation, a standalone backup that could not be taken
\* included.
C25_ExitCodes ==
    pc = "exited" =>
        /\ exitReason \in InformationalExits => exitCode = 0
        /\ exitReason \in AbortedExits => exitCode # 0

\* C26: Prechecks ends the run with a non-zero exit code, without a later
\* stage and without a checkpoint, when the disk has less than 2 GB free, when
\* a live process holds the package lock, and when the package database has
\* issues the operator declines to fix.
C26_PrechecksAbort ==
    /\ (pc = "exited" /\ exitReason \in {"disk", "pkg_lock"})
          => (exitCode # 0 /\ LastExecuted = PRECHECKS)
    /\ (LastExecuted = PRECHECKS /\ stageTrail = <<"db fix declined">>)
          => (pc = "exited" /\ exitCode # 0)

\* C27: declining the start confirmation ends the process with exit code 0,
\* no stage executed and no state file written; declining the confirmation of
\* the major path's BaseKernel stage runs no base/kernel command and no later
\* stage, ends the process with a non-zero exit code and deletes the state
\* file, and an invocation that is not a resume and finds no state file
\* starts a fresh run at the first stage unless its own start confirmation is
\* declined.
C27_Declines ==
    /\ [](exitReason = "cancelled"
             => (exitCode = 0 /\ executed = <<>> /\ stateFile = NoFile))
    /\ [](exitReason = "bk_cancelled"
             => /\ exitCode # 0
                /\ ~minor /\ LastExecuted = BASE_KERNEL /\ cmds = {}
                /\ stateFile = NoFile)
    /\ [][(pc = "begin" /\ stateFile = NoFile /\ pc' # "none")
             => \/ pc' = "exited" /\ exitReason' = "cancelled"
                \/ pc' = "run" /\ origin' = "fresh" /\ CurStage' = PRECHECKS]_vars

\* the whole of a fresh major run up to the declined confirmation
C27_Witness ==
    /\ pc = "exited" /\ exitReason = "bk_cancelled" /\ exitCode = 1
    /\ origin = "fresh" /\ executed = <<PRECHECKS, CLEANUP, BACKUP, BASE_KERNEL>>
    /\ stateFile = NoFile

\* C28: a command failure in Cleanup, in the minor path's base/kernel update
\* or in the PostVerify checks does not abort the run: the stage ends in the
\* save of its successor, and, when no later stage fails, no confirmation is
\* declined and the machine comes up after every reboot, the following stage
\* is executed.
C28_FailuresDoNotStop ==
    /\ [](stageTrail = <<"command failed">>
             => /\ exitReason \notin AbortedExits
                /\ pc \in {"save", "write"} => saveStage = Successor(LastExecuted, minor))
    /\ ([]Smooth) =>
          /\ (stageTrail = <<"command failed">> /\ LastExecuted = CLEANUP)
                ~> (LastExecuted = BACKUP)
          /\ (stageTrail = <<"command failed">> /\ LastExecuted = BASE_KERNEL)
                ~> (LastExecuted = PACKAGES)
          /\ (stageTrail = <<"command failed">> /\ LastExecuted = POST_VERIFY)
                ~> (LastExecuted = COMPLETE)

\* C29: a checkpoint in the state file names one of Cleanup, Backup,
\* BaseKernel, FixPkg, Packages, PostVerify, Complete, never Init or
\* Prechecks; and a process that has executed the Complete stage executes no
\* further stage and writes no checkpoint.
C29_PersistedStages ==
    /\ [](LoadOk(stateFile)
             => stateFile.stage \in {CLEANUP, BACKUP, BASE_KERNEL, FIX_PKG, PACKAGES,
                                     POST_VERIFY, COMPLETE})
    /\ [][LastExecuted = COMPLETE
             => /\ executed' \in {executed, <<>>}
                /\ stateFile' = stateFile
                /\ pc' \notin {"save", "write"}]_vars

\* Complete has executed in execute mode, after a checkpoint naming Complete
C29_Witness ==
    /\ pc = "unhook" /\ LastExecuted = COMPLETE /\ ~dry_run
    /\ Len(executed) > 1 /\ current_stage = COMPLETE /\ stateFile = NoFile

\* C30: on the major path in execute mode the Packages stage switches the
\* repository branch, refreshes the catalog, upgrades all packages and
\* finalizes, in this order, and only then compares the resulting branch
\* with the target's; it goes on to save PostVerify only if the branches
\* match, and otherwise the run is aborted with the state file still naming
\* Packages.
C30_PackagesOrder ==
    [][(AtStage(PACKAGES) /\ ~dry_run /\ ~minor /\ executed' = Append(executed, PACKAGES))
          => /\ stageTrail' \in {<<>>, <<"switch repo", "pkg update -f", "pkg upgrade -fy",
                                         "opnsense-update", "verify">>}
             /\ pc' = "save"
                   => /\ stageTrail' # <<>>
                      /\ saveStage' = POST_VERIFY
                      /\ major(opnsense_version(sysVer')) = major(target)
             /\ pc' # "save"
                   => /\ pc' = "exited" /\ exitCode' # 0
                      /\ LoadOk(stateFile') /\ stateFile'.stage = PACKAGES
             /\ (stageTrail' # <<>> /\ major(opnsense_version(sysVer')) # major(target))
                   => pc' = "exited"]_vars

\* the upgrade ran and left the installed branch as it was
C30_Witness ==
    /\ pc = "exited" /\ exitReason = "still_on_old" /\ ~dry_run /\ ~minor
    /\ LastExecuted = PACKAGES /\ Len(stageTrail) = 5
    /\ "pkg upgrade -fy" \in cmds
    /\ major(opnsense_version(sysVer)) # major(target)
    /\ LoadOk(stateFile) /\ stateFile.stage = PACKAGES

\* C31: in execute mode the FixPkg stage aborts exactly when the self-test
\* failed (one of its two checks), the reinstall failed (the command or the
\* version check after it) and the bootstrap failed as well; in every other
\* case it goes on to save the Packages checkpoint.
C31_FixPkgAbortsIff ==
    /\ [][(AtStage(FIX_PKG) /\ ~dry_run /\ executed' = Append(executed, FIX_PKG))
            => LET failed(names) == \E i \in 1..Len(stageTrail') : stageTrail'[i] \in names
                   allFailed == /\ failed({"pkg -v failed", "pkg query failed"})
                                /\ failed({"reinstall failed", "pkg -v still failing"})
                                /\ failed({"bootstrap failed"})
               IN  /\ pc' = "exited" <=> allFailed
                   /\ pc' = "exited" => exitCode' # 0
                   /\ pc' # "exited" => (pc' = "save" /\ saveStage' = PACKAGES)
                   /\ failed({"bootstrap failed"})
                         => failed({"reinstall failed", "pkg -v still failing"})
                   /\ failed({"reinstall failed", "pkg -v still failing"})
                         => failed({"pkg -v failed", "pkg query failed"})]_vars
    /\ []((~dry_run /\ LastExecuted = FIX_PKG /\ pc \in {"save", "write"})
            => saveStage = PACKAGES)

\* the second self-test check failed, the reinstall did not help, and the
\* bootstrap failed
C31_Witness ==
    /\ pc = "exited" /\ exitReason = "bootstrap_failed" /\ exitCode # 0 /\ ~dry_run
    /\ LastExecuted = FIX_PKG
    /\ stageTrail = <<"pkg query failed", "pkg -v still failing", "bootstrap failed">>

\* Branch a is later than branch b in (year, month) order.
Newer(a, b) == a.y > b.y \/ (a.y = b.y /\ a.m > b.m)

\* C32: the mirror is probed for branches only when minor_only is false and
\* the firmware status gave no major candidate; for the installed branch
\* (year, month) the probes go to year+1.1 then year+1.7 when month >= 7,
\* else to year.7 then year+1.1, they stop at the first branch that has a
\* repository, which becomes the major candidate, and every branch probed is
\* later than the installed one.
C32_ProbeOrder ==
    [][(q.pc = "m2" /\ q'.pc = "m3")
          => LET y == q.cur.y
                 order == IF q.cur.m >= 7
                          THEN <<V(y + 1, 1, NoPart), V(y + 1, 7, NoPart)>>
                          ELSE <<V(y, 7, NoPart), V(y + 1, 1, NoPart)>>
                 n == Len(q'.probed)
             IN  /\ n > 0 => (~q.mo /\ ~Truthy(q.fmaj))
                 /\ IsPrefix(q'.probed, order)
                 /\ \A i \in 1..n : Newer(q'.probed[i], q.cur)
                 /\ \A i \in 1..(n - 1) : q'.probed[i] \notin q.e.repos
                 /\ n > 0 => IF q'.probed[n] \in q.e.repos
                             THEN /\ q'.fmaj.y = q'.probed[n].y
                                  /\ q'.fmaj.m = q'.probed[n].m
                             ELSE n = Len(order) /\ q'.fmaj = NoVer]_vars

\* installed 25.1.1, no repository for 25.7: the second probe finds 26.1
C32_Witness ==
    /\ q.pc = "m3" /\ q.cur = V(25, 1, 1) /\ ~q.mo
    /\ q.probed = <<V(25, 7, NoPart), NextBranch>>
    /\ major(opnsense_version(q.fmaj)) = NextBranch

\* C33: on the major path in execute mode the Packages stage switches the
\* repository and upgrades the packages only if BaseKernel succeeded for the
\* target earlier in the run: in this process, or in an earlier one whose
\* checkpoint (FixPkg or Packages witnesses BaseKernel) this process resumed
\* from; and a resume that finds no state file on a system where no upgrade
\* was started (the installed version is the original one, no ABI mismatch,
\* no base update pending) executes no stage.
C33_PackagesAfterBaseKernel ==
    /\ []((~dry_run /\ ~minor /\ LastExecuted = PACKAGES /\ "pkg upgrade -fy" \in cmds)
            => \/ BASE_KERNEL \in ExecutedStages
               \/ origin = "file" /\ startStage \in {FIX_PKG, PACKAGES})
    /\ [][(pc = "resume" /\ ~StateExists(stateFile) /\ ~runActive /\ ~needsBoot
             /\ sysVer = InstalledVer
             /\ detectEnv'.called /\ ~detectEnv'.abi /\ ~detectEnv'.upd)
            => (pc' = "exited" /\ executed' = <<>>)]_vars

\* C34: whenever the orchestrator restarts the machine in execute mode while
\* the state file exists (after BaseKernel on either path, or at the end of
\* PostVerify), the boot hook is in place at that moment.
C34_HookAtEveryReboot ==
    [][(pc = "reboot" /\ pc' = "exited" /\ exitReason' = "reboot" /\ booting'
          /\ ~dry_run /\ StateExists(stateFile))
         => hook]_vars

\* The ends of a process whose stage failed on a command or a check.
FailedStageExits ==
    {"disk", "pkg_lock", "no_config", "bk_failed", "bootstrap_failed", "repo_switch",
     "still_on_old"}

\* C35 as stated: a stage that aborts because a command or a precondition
\* check failed leaves the state file as it was when the stage began, so that
\* the file names the failed stage and a later resume starts with it.
C35_AbortLeavesFailedStage ==
    [][(pc = "run" /\ pc' = "exited" /\ exitReason' \in FailedStageExits)
          => /\ stateFile' = stateFile
             /\ LoadOk(stateFile') /\ stateFile'.stage = LastExecuted']_vars

\* C35, amended: such an abort leaves the state file as it was when the stage
\* began.  When the file exists it names the failed stage, and a later resume
\* that loads it enters the loop at that stage; it is absent when the failed
\* stage is Prechecks of a fresh run or the first stage of a resume by
\* detection, and a later resume then goes by detection again.
C35_AbortKeepsCheckpoint ==
    /\ [][(pc = "run" /\ pc' = "exited" /\ exitReason' \in FailedStageExits)
            => /\ stateFile' = stateFile
               /\ exitCode' # 0
               /\ StateExists(stateFile)
                     => (LoadOk(stateFile) /\ stateFile.stage = LastExecuted')
               /\ ~StateExists(stateFile)
                     => \/ origin = "fresh" /\ executed' = <<PRECHECKS>>
                        \/ origin = "detect" /\ executed' = <<startStage>>]_vars
    /\ [][(pc = "resume" /\ LoadOk(stateFile) /\ pc' = "run")
            => (current_stage' = stateFile.stage /\ CurStage' = stateFile.stage)]_vars
    /\ [][(pc = "resume" /\ ~StateExists(stateFile) /\ pc' = "run")
            => (origin' = "detect" /\ detectEnv'.called)]_vars

\* FixPkg failed in a process that came from the FixPkg checkpoint
C35_Witness ==
    /\ pc = "exited" /\ exitReason = "bootstrap_failed" /\ ~dry_run
    /\ origin = "file" /\ LastExecuted = FIX_PKG
    /\ LoadOk(stateFile) /\ stateFile.stage = FIX_PKG

\* C36: when no source reports anything newer (the firmware status has no
\* candidate, the mirror has no repository of a next branch, the update
\* check reports nothing, the same-branch probes give at most the installed
\* version and the greatest changelog branch is the installed branch),
\* query_latest(minor_only = False) returns the installed version, with or
\* without a patch component.
C36_NothingNewerGivesCurrent ==
    (/\ q.pc = "done" /\ ~q.mo /\ Truthy(q.cur)
     /\ q.e.fwMajor = NoVer /\ q.e.fwMinor \in {NoVer, q.cur}
     /\ q.e.repos = {}
     /\ q.e.upd = NoVer
     /\ q.e.patched \in {NoVer, q.cur}
     /\ q.e.cl.y = q.cur.y /\ q.e.cl.m = q.cur.m)
        => q.out = q.cur

\* C37: query_latest never returns a version of a branch older than the
\* installed one, and a major candidate, whichever method produced it, is of
\* a branch later than the installed one in (year, month) order.
C37_NeverOlderBranch ==
    (q.pc = "done" /\ Truthy(q.cur))
        => /\ ~Newer(q.cur, q.out)
           /\ Truthy(q.fmaj) => Newer(q.fmaj, q.cur)

\* C38: an invocation without the execute flag never creates, overwrites or
\* deletes the state file or the boot hook, whatever it was asked to do: a
\* fresh run, a resume (of a corrupt state file too), a query or a clean.
C38_DryRunKeepsFileAndHook ==
    [][(pc \notin {"none", "exited"} /\ dry_run /\ pc' # "none")
          => UNCHANGED <<stateFile, hook>>]_vars

\* The requests that change the firewall.
WriteRequests == {"POST update", "POST upgrade", "POST reboot"}

\* The requests the call under way (or the last one) has sent.
SentRequests == {mcp.sent[i] : i \in 1..Len(mcp.sent)}

\* C39: on a server configured read-only no call sends the update, upgrade
\* or reboot request; a call of run_update, run_upgrade or reboot fails with
\* the read-only error before any request is sent, and the tools that only
\* read still send their requests and answer.
C39_ReadOnlyBlocksWrites ==
    /\ []((mcp.pc # "off" /\ mcp.read_only) => SentRequests \cap WriteRequests = {})
    /\ [][(mcp.pc = "called" /\ mcp.read_only /\ mcp.tool \in WriteTools)
            => (mcp'.pc = "idle" /\ mcp'.outcome = "error: read-only"
                /\ mcp'.sent = <<>> /\ mcp'.fw = mcp.fw)]_vars
    /\ [][(mcp.pc = "called" /\ mcp.read_only /\ mcp.tool \in ReadTools)
            => (mcp'.sent # <<>> /\ mcp'.outcome \in {"text", "api error"})]_vars
    /\ []((mcp.pc # "off" /\ mcp.setting \in {"1", "true", "TRUE", "yes"}) => mcp.read_only)

\* OPNSENSE_READ_ONLY=TRUE, an upgrade is available and nothing runs: the
\* call of run_upgrade ended with the read-only error
C39_Witness ==
    /\ mcp.pc = "idle" /\ mcp.setting = "TRUE" /\ mcp.read_only
    /\ mcp.tool = "run_upgrade" /\ mcp.outcome = "error: read-only" /\ mcp.sent = <<>>
    /\ ~mcp.fw.running /\ UpgradeVerdict(mcp.fw) = "go"

\* C40: run_upgrade sends the upgrade request only if, as read in the same
\* call, nothing is running, the firmware status is "upgrade" and the latest
\* minor version is the current version without its revision suffix; in
\* every other case it sends no upgrade request and returns a message.
C40_UpgradeOnlyWhenReady ==
    /\ [][("POST upgrade" \in {mcp'.sent[i] : i \in 1..Len(mcp'.sent)}
             /\ "POST upgrade" \notin SentRequests)
            => /\ mcp.tool = "run_upgrade" /\ mcp.pc = "checked"
               /\ mcp.sent = <<"GET upgradestatus">>
               /\ mcp.fw.status = "upgrade"
               /\ mcp.fw.latest = [mcp.fw.current EXCEPT !.r = NoRev]]_vars
    /\ []((mcp.pc = "idle" /\ mcp.tool = "run_upgrade"
            /\ "POST upgrade" \notin SentRequests)
            => mcp.outcome \in {"error: read-only", "api error", "already running",
                                "not released", "no major upgrade", "minor pending"})

====
